---- MODULE Spec2Model ----
(***************************************************************************)
(* A state-machine model of the spycewar gameplay core: the ship (Player), *)
(* its health record (PlayerState), the Gameplay phase with its event      *)
(* handling and collision pass, and the StateManager that moves between    *)
(* the Intro, Gameplay and GameOver phases, driven by the App frame loop,  *)
(* and the Powerup with its despawn timer.                                 *)
(*                                                                         *)
(* Vector2 values are pairs <<x, y>> of integers: lengths are pixels,      *)
(* times are milliseconds, velocities are pixels per millisecond.  A       *)
(* result that pygame rounds to the nearest representable number is        *)
(* rounded here to the nearest integer.                                    *)
(***************************************************************************)
EXTENDS Integers, Sequences, FiniteSets, TLC

VARIABLES
    ships,              \* Player objects of the current match, by player slot
    players,            \* Gameplay.__players: the slots whose ship is in the group
    health_bars,        \* Gameplay.__heath_bars: slot -> hit points shown
    bars,               \* the slots whose HealthBar is in the group
    projectiles,        \* Gameplay.__projectiles: sequence of projectile records
    explosions,         \* Gameplay.__explosions: sequence of explosion positions
    thrusts,            \* Gameplay.__thrusts: the number of Thrust effects, or the Thrusts
    queue,              \* pygame's event queue
    batch,              \* the events pygame.event.get() returned, not yet dispatched
    posted,             \* the events the last step posted
    timers,             \* pending pygame timers, oldest first: [remaining, age]
    current_state_name, \* StateManager.__current_state_name
    done,               \* State.done of each phase
    next_state,         \* State.next_state of each phase
    previous_state,     \* State.previous_state of each phase
    context,            \* the GameContext object each phase holds
    exit_ret,           \* what the last exit() returned
    enter_arg,          \* what the last enter() was handed
    pc,                 \* the frame loop's position
    delta_time,         \* the frame's delta_time
    matches,            \* how many times Gameplay was entered
    fire_gap,           \* per slot: [since, at_fire], the update time summed since
                        \* the ship last fired and that sum at its last fire
    died_frame,         \* a PLAYER_DIED was processed in the current frame
    powerup             \* the Powerup object, None where none is constructed

vars == <<ships, players, health_bars, bars, projectiles, explosions, thrusts,
          queue, batch, posted, timers, current_state_name,
          done, next_state, previous_state, context, exit_ret, enter_arg,
          pc, delta_time, matches, fire_gap, died_frame, powerup>>

----------------------------------------------------------------------------
(* Configuration and assets (read through get_cfg and load_image)          *)

PlayerIds == {"PLAYER1", "PLAYER2"}

\* game.screen_size
ScreenWidth == 300
ScreenHeight == 200

\* entities.players.<player>.max_health
MaxHealth == 20

\* entities.ships.<player>.* and entities.projectiles.<player>.*
ShipMaxSpeed == 2
ShipAcceleration == 1
RotationSpeed == 90
ProjectileSpeed == 1
ProjectileCooldown == 150
HyperspaceCooldown == 100

\* height of the ship sprite, and the half extents of its rect and mask
ShipImageHeight == 40
ShipRectHalf == 20
ShipMaskHalf == 12

\* entities.players.random_start_position
RandomStartPosition == FALSE

----------------------------------------------------------------------------
(* pygame.math.Vector2                                                     *)

Abs(n) == IF n < 0 THEN -n ELSE n

Sign(n) == IF n < 0 THEN -1 ELSE IF n > 0 THEN 1 ELSE 0

VAdd(a, b) == <<a[1] + b[1], a[2] + b[2]>>

VScale(a, k) == <<a[1] * k, a[2] * k>>

VNeg(a) == <<-a[1], -a[2]>>

\* the square of Vector2.length()
Length2(a) == a[1] * a[1] + a[2] * a[2]

\* |c| * m / length, rounded to the nearest integer, for a vector of squared
\* length l2 >= c * c and l2 > 0
RoundScaled(c, m, l2) ==
    LET a == Abs(c)
        fits(r) == (2 * r - 1) * (2 * r - 1) * l2 <= 4 * a * a * m * m
        cands == {r \in 1..m : fits(r)}
    IN  IF cands = {} THEN 0 ELSE CHOOSE r \in cands : \A q \in cands : q <= r

\* Vector2.normalize() * m
NormalizeTimes(a, m) ==
    <<Sign(a[1]) * RoundScaled(a[1], m, Length2(a)),
      Sign(a[2]) * RoundScaled(a[2], m, Length2(a))>>

\* math.sin and math.cos of an angle in degrees, on the quarter turns
SinDeg(angle) ==
    LET q == (angle % 360) \div 90
    IN  CASE q = 0 -> 0 [] q = 1 -> 1 [] q = 2 -> 0 [] q = 3 -> -1

CosDeg(angle) ==
    LET q == (angle % 360) \div 90
    IN  CASE q = 0 -> 1 [] q = 1 -> 0 [] q = 2 -> -1 [] q = 3 -> 0

Max(a, b) == IF a >= b THEN a ELSE b

Min(a, b) == IF a <= b THEN a ELSE b

----------------------------------------------------------------------------
(* PlayerState                                                             *)

\* the health setter
SetHealth(value) == Max(0, Min(MaxHealth, value))

\* PlayerState.take_damage
TakeDamage(health, damage) == SetHealth(health - damage)

\* PlayerState.heal
Heal(health, amount) == Min(MaxHealth, health + amount)

----------------------------------------------------------------------------
(* Events                                                                  *)

NoPlayer == "NONE"

NoVec == <<0, 0>>

\* pygame Event objects.  kind is "KEYDOWN", "KEYUP" or "USEREVENT"; event is
\* the Events member of a USEREVENT; key is the key of a keyboard event.
Ev(kind, event, key, player, amount, pos, vel) ==
    [kind |-> kind, event |-> event, key |-> key, player |-> player,
     amount |-> amount, pos |-> pos, vel |-> vel]

UserEv(event, player, amount, pos, vel) ==
    Ev("USEREVENT", event, "", player, amount, pos, vel)

KeyEv(kind, key) == Ev(kind, "", key, NoPlayer, 0, NoVec, NoVec)

----------------------------------------------------------------------------
(* Player (the ship)                                                       *)

\* PlayerControls.load_controls: the keys bound to a slot
Controls(p) ==
    [fire |-> <<p, "fire">>, left |-> <<p, "left">>, right |-> <<p, "right">>,
     thrust |-> <<p, "thrust">>, hyperspace |-> <<p, "hyperspace">>,
     shield |-> <<p, "shield">>]

\* ShipSpecs.fire_event
FireEvent(p) == IF p = "PLAYER1" THEN "PLAYER1_FIRES" ELSE "PLAYER2_FIRES"

\* Player.__init__
NewShip ==
    [pos |-> <<0, 0>>, vel |-> <<0, 0>>, angle |-> 0,
     is_accelerating |-> FALSE, is_turning_left |-> FALSE,
     is_turning_right |-> FALSE, cooldown |-> 0, hyperspace_cooldown |-> 0,
     health |-> MaxHealth, rect |-> <<0, 0>>]

\* the cooldown setters
SetCooldown(value) == Max(value, 0)

\* Player.__compute_trajectory: the direction the ship faces (reversed when
\* backwards), the velocity and the position of what the ship emits
DirectionUnreversed(s, backwards) ==
    LET d == <<SinDeg(s.angle), CosDeg(s.angle)>>
    IN  IF backwards THEN VNeg(d) ELSE d

Direction(s, backwards) ==
    LET d == VNeg(<<SinDeg(s.angle), CosDeg(s.angle)>>)
    IN  IF backwards THEN VNeg(d) ELSE d

TrajectoryVelocity(s, speed, backwards) ==
    VAdd(s.vel, VScale(Direction(s, backwards), speed))

TrajectoryPosition(s, backwards, offset) ==
    VAdd(VScale(Direction(s, backwards), ShipImageHeight \div 2 + offset), s.pos)

\* a hyperspace that keeps the velocity of the ship
HyperspaceDrifting(s, rnd) ==
    [s EXCEPT !.hyperspace_cooldown = SetCooldown(HyperspaceCooldown),
              !.pos = rnd]

\* Player.__hyperspace, rnd the position the two randint calls draw
Hyperspace(s, rnd) ==
    [s EXCEPT !.hyperspace_cooldown = SetCooldown(HyperspaceCooldown),
              !.vel = <<0, 0>>, !.pos = rnd]

\* Player.__fire
FiredShip(s) == [s EXCEPT !.cooldown = SetCooldown(ProjectileCooldown)]

FireEventOf(s, p) ==
    UserEv(FireEvent(p), NoPlayer, 0,
           TrajectoryPosition(s, FALSE, 10),
           TrajectoryVelocity(s, ProjectileSpeed, FALSE))

\* Player.__thrust: dir_ is 2 * (velocity + 2.5 * backwards direction)
ThrustEventOf(s) ==
    UserEv("THRUST", NoPlayer, 0,
           TrajectoryPosition(s, TRUE, -5),
           VAdd(VScale(s.vel, 2), VScale(Direction(s, TRUE), 5)))

\* Player.handle_input up to the fire branch: the flags of the held keys and
\* the hyperspace jump
KeysApplied(s, p, key, is_pressed, rnd) ==
    LET c == Controls(p)
        flagged == [s EXCEPT
                      !.is_accelerating = IF key = c.thrust THEN is_pressed ELSE @,
                      !.is_turning_left = IF key = c.left THEN is_pressed ELSE @,
                      !.is_turning_right = IF key = c.right THEN is_pressed ELSE @]
    IN  IF key = c.hyperspace /\ is_pressed /\ s.hyperspace_cooldown <= 0
        THEN Hyperspace(flagged, rnd) ELSE flagged

\* the fire branch of Player.handle_input is taken
Fires(s, p, key, is_pressed) ==
    key = Controls(p).fire /\ s.cooldown <= 0 /\ is_pressed

\* the fire branch with the cooldown test left out
FiresNoGate(s, p, key, is_pressed) ==
    key = Controls(p).fire /\ is_pressed

\* the fire branch of Player.handle_input: the ship after it and its events
FireBranch(s, p, fires) ==
    [ship |-> IF fires THEN FiredShip(s) ELSE s,
     posts |-> IF fires THEN <<FireEventOf(s, p)>> ELSE <<>>]

\* handle_input with the cooldown test of the fire branch left out
HandleInputNoGate(s, p, key, is_pressed, rnd) ==
    FireBranch(KeysApplied(s, p, key, is_pressed, rnd), p,
               FiresNoGate(s, p, key, is_pressed))

\* Player.handle_input: the ship after the call and the events it posted
HandleInput(s, p, key, is_pressed, rnd) ==
    FireBranch(KeysApplied(s, p, key, is_pressed, rnd), p,
               Fires(s, p, key, is_pressed))

\* Player.process_events
ProcessEventsShip(s, p, e) ==
    LET s1 == IF e.event = "PLAYER_HIT" /\ e.player = p
              THEN [s EXCEPT !.health = TakeDamage(s.health, e.amount)] ELSE s
    IN  IF e.event = "HEALTH_POWERUP_PICKUP"
        THEN [s1 EXCEPT !.health = Heal(s1.health, e.amount)] ELSE s1

\* __update_velocity with the rescaling to max_speed left out; the speed is
\* followed up to twice max_speed
UpdateVelocityNoClamp(s) ==
    LET v == VAdd(s.vel, VScale(Direction(s, FALSE), ShipAcceleration))
    IN  IF Length2(v) <= 4 * ShipMaxSpeed * ShipMaxSpeed THEN v ELSE s.vel

\* Player.__update_velocity
UpdateVelocity(s) ==
    LET acc == VScale(Direction(s, FALSE), ShipAcceleration)
        v == VAdd(s.vel, acc)
    IN  IF Length2(v) <= ShipMaxSpeed * ShipMaxSpeed
        THEN v ELSE NormalizeTimes(v, ShipMaxSpeed)

\* the steps of Player.update in order: thrust, turn, move, cool down, mask
Thrusted(s) ==
    IF s.is_accelerating THEN [s EXCEPT !.vel = UpdateVelocity(s)] ELSE s

Turned(s) ==
    [s EXCEPT !.angle = @ + (IF s.is_turning_left THEN RotationSpeed ELSE 0)
                          - (IF s.is_turning_right THEN RotationSpeed ELSE 0)]

Moved(s, dt) == [s EXCEPT !.pos = VAdd(s.pos, VScale(s.vel, dt))]

Cooled(s, dt) ==
    [s EXCEPT
       !.cooldown = IF @ >= 0 THEN SetCooldown(@ - dt) ELSE @,
       !.hyperspace_cooldown = IF @ >= 0 THEN SetCooldown(@ - dt) ELSE @]

Masked(s) == [s EXCEPT !.rect = s.pos]

\* the events Player.update posts: the thrust of an accelerating ship, the
\* death of a ship without health
UpdatePosts(s, p) ==
    (IF s.is_accelerating THEN <<ThrustEventOf(Thrusted(s))>> ELSE <<>>)
    \o (IF s.health <= 0
        THEN <<UserEv("PLAYER_DIED", p, 0, NoVec, NoVec)>> ELSE <<>>)

\* Player.update: the ship after the call and the events it posted
UpdateShip(s, p, dt) ==
    IF s.pos = <<0, 0>>
    THEN [ship |-> s, posts |-> <<>>]
    ELSE [ship |-> Masked(Cooled(Moved(Turned(Thrusted(s)), dt), dt)),
          posts |-> UpdatePosts(s, p)]

\* Player.__normalise_angle
NormaliseAngle(angle) ==
    IF angle > 360 THEN angle - 360
    ELSE IF angle < 0 THEN angle + 360 ELSE angle

\* a wrap that stops the ship at the edge it crossed
WrapPositionBounce(pos) ==
    IF pos = <<0, 0>> THEN pos
    ELSE <<Max(0, Min(ScreenWidth, pos[1])), Max(0, Min(ScreenHeight, pos[2]))>>

\* Player.__wrap_position
WrapPosition(pos) ==
    IF pos = <<0, 0>> THEN pos
    ELSE <<IF pos[1] > ScreenWidth THEN 0
           ELSE IF pos[1] < 0 THEN ScreenWidth ELSE pos[1],
           IF pos[2] > ScreenHeight THEN 0
           ELSE IF pos[2] < 0 THEN ScreenHeight ELSE pos[2]>>

\* the start of Player.render: a ship at the zero vector is put on its start
\* position, rnd the position the two randint calls draw
PlaceShip(s, p, rnd) ==
    IF s.pos # <<0, 0>> THEN s
    ELSE IF RandomStartPosition THEN [s EXCEPT !.pos = rnd]
    ELSE IF p = "PLAYER1" THEN [s EXCEPT !.pos = <<100, 100>>, !.angle = 180]
    ELSE [s EXCEPT !.pos = <<ScreenWidth - 100, ScreenHeight - 100>>]

\* Player.render
RenderShip(s, p, rnd) ==
    LET s1 == PlaceShip(s, p, rnd)
        s2 == [s1 EXCEPT !.angle = NormaliseAngle(s1.angle)]
    IN  [s2 EXCEPT !.pos = WrapPosition(s2.pos)]

----------------------------------------------------------------------------
(* HealthBar                                                               *)

\* HealthBar.__take_damage
BarTakeDamage(hp, damage) == Max(0, hp - damage)

\* HealthBar.__restore_health
BarRestoreHealth(hp, heal) == Min(MaxHealth, hp + heal)

\* HealthBar.process_events
ProcessEventsBar(hp, p, e) ==
    LET h1 == IF e.event = "PLAYER_HIT" /\ e.player = p
              THEN BarTakeDamage(hp, e.amount) ELSE hp
    IN  IF e.event = "HEALTH_POWERUP_PICKUP" /\ e.player = p
        THEN BarRestoreHealth(h1, e.amount) ELSE h1

----------------------------------------------------------------------------
(* The phases and the state manager: construction                          *)

\* the members of the enum GameState
GameStateMembers == {"NONE", "INTRO", "GAMEPLAY", "GAMEOVER"}

\* the names StateManager.__init__ registers its states under, as the code
\* writes them: GameState.INTRO, GameState.GAMEPLAY, GameState.GAME_OVER
StateNames == {"INTRO", "GAMEPLAY", "GAME_OVER"}

\* the GameContext each phase constructs; Gameplay holds none
NoContext == "None"

InitContext ==
    [n \in StateNames |->
        CASE n = "INTRO" -> "ctx_intro"
          [] n = "GAMEPLAY" -> NoContext
          [] n = "GAME_OVER" -> "ctx_gameover"]

\* next_state with Gameplay leading back to Intro
InitNextStateSkip ==
    [n \in StateNames |->
        CASE n = "INTRO" -> "GAMEPLAY"
          [] n = "GAMEPLAY" -> "INTRO"
          [] n = "GAME_OVER" -> "INTRO"]

\* next_state as set by Intro.__init__, Gameplay.__init__, GameOver.__init__
InitNextState ==
    [n \in StateNames |->
        CASE n = "INTRO" -> "GAMEPLAY"
          [] n = "GAMEPLAY" -> "GAME_OVER"
          [] n = "GAME_OVER" -> "INTRO"]

----------------------------------------------------------------------------
(* Powerup                                                                 *)

\* Gameplay constructs no Powerup
NoPowerup == "None"

\* entities.powerups.health.base_duration
PowerupBaseDuration == 2000

\* Powerup.__init__; duration is base_duration + random.randint(0, 2000).
\* spawns counts the spawns so far and names the current one.
NewPowerup(duration) ==
    [spawned |-> FALSE, position |-> NoVec, duration |-> duration, spawns |-> 0]

\* the event of the despawn timer; amount names the spawn that armed the timer
RemovalEvent(spawn) ==
    UserEv("HEALTH_POWERUP_REMOVAL", NoPlayer, spawn, NoVec, NoVec)

\* Powerup.process_events
ProcessEventsPowerup(pu, e) ==
    IF e.event \in {"HEALTH_POWERUP_PICKUP", "HEALTH_POWERUP_REMOVAL"}
    THEN [pu EXCEPT !.spawned = FALSE] ELSE pu

\* a condition that lets a spawned power-up spawn again
SpawnsWhenLucky(pu, lucky) == lucky

\* the condition of Powerup.update: lucky is random.random() < probability
Spawns(pu, lucky) == ~pu.spawned /\ lucky

\* Powerup.update on the object
UpdatePowerup(pu, lucky, position) ==
    IF Spawns(pu, lucky)
    THEN [pu EXCEPT !.position = position, !.spawned = TRUE, !.spawns = @ + 1]
    ELSE pu

\* pygame.time.set_timer(powerup_removal_event, duration) of Powerup.update:
\* a repeating timer, which replaces the timer of the same event type
TimersAfterUpdate(ts, pu, lucky) ==
    IF Spawns(pu, lucky)
    THEN <<[remaining |-> pu.duration, interval |-> pu.duration,
            spawn |-> pu.spawns + 1]>>
    ELSE ts

----------------------------------------------------------------------------
(* Bookkeeping of the specifications                                       *)

NoGap == [since |-> 0, at_fire |-> -2]

\* the part of the state that the ship and health specifications leave alone
InitRest ==
    /\ health_bars = [p \in PlayerIds |-> MaxHealth]
    /\ bars = PlayerIds
    /\ projectiles = <<>>
    /\ explosions = <<>>
    /\ thrusts = 0
    /\ queue = <<>>
    /\ batch = <<>>
    /\ posted = <<>>
    /\ timers = <<>>
    /\ current_state_name = "GAMEPLAY"
    /\ done = [n \in StateNames |-> FALSE]
    /\ next_state = InitNextState
    /\ previous_state = [n \in StateNames |-> "NONE"]
    /\ context = InitContext
    /\ exit_ret = NoContext
    /\ enter_arg = NoContext
    /\ delta_time = 0
    /\ matches = 1
    /\ fire_gap = [p \in PlayerIds |-> NoGap]
    /\ died_frame = FALSE
    /\ powerup = NoPowerup

----------------------------------------------------------------------------
(* One ship driven through the frame loop: handle_input calls, then        *)
(* update, then render                                                     *)

\* frame deltas the clock hands to update
ShipDts == {100}

\* positions Player.__hyperspace can draw: randint(20, width - 20) and
\* randint(20, height - 20)
HyperspaceDraws == {<<100, 100>>, <<200, 100>>}

ShipKeys(p) ==
    {Controls(p).fire, Controls(p).left, Controls(p).right, Controls(p).thrust,
     Controls(p).hyperspace, Controls(p).shield}

IsFire(e) == e.event \in {"PLAYER1_FIRES", "PLAYER2_FIRES"}

HasFire(events, p) ==
    \E i \in 1..Len(events) : events[i].event = FireEvent(p)

\* the fire bookkeeping after a handle_input call that posted `posts`
GapAfterInput(g, posts, p) ==
    IF HasFire(posts, p)
    THEN [since |-> 0, at_fire |-> IF g.at_fire = -2 THEN -1 ELSE g.since]
    ELSE g

\* the fire bookkeeping after an update call
GapAfterUpdate(g, dt) ==
    [g EXCEPT !.since = Min(ProjectileCooldown, g.since + dt)]

\* the draws a handle_input call can make: only a hyperspace press draws
DrawsFor(p, key, is_pressed) ==
    IF key = Controls(p).hyperspace /\ is_pressed THEN HyperspaceDraws ELSE {NoVec}

shipRest == <<players, health_bars, bars, projectiles, explosions, thrusts,
              queue, batch, timers, current_state_name, done,
              next_state, previous_state, context, exit_ret, enter_arg,
              matches, died_frame, powerup>>

InitShip ==
    /\ ships = [p \in PlayerIds |-> NewShip]
    /\ players = {"PLAYER1"}
    /\ pc = "update"
    /\ InitRest

ShipInput(p, key, is_pressed, rnd) ==
    /\ pc = "tick"
    /\ p \in players
    /\ LET r == HandleInput(ships[p], p, key, is_pressed, rnd)
       IN  /\ ships' = [ships EXCEPT ![p] = r.ship]
           /\ posted' = r.posts
           /\ fire_gap' = [fire_gap EXCEPT ![p] = GapAfterInput(@, r.posts, p)]
    /\ UNCHANGED <<pc, delta_time, shipRest>>

ShipUpdate(p, dt) ==
    /\ pc \in {"tick", "update"}
    /\ p \in players
    /\ LET r == UpdateShip(ships[p], p, dt)
       IN  /\ ships' = [ships EXCEPT ![p] = r.ship]
           /\ posted' = r.posts
    /\ fire_gap' = [fire_gap EXCEPT ![p] = GapAfterUpdate(@, dt)]
    /\ delta_time' = dt
    /\ pc' = "render"
    /\ UNCHANGED shipRest

ShipRender(p) ==
    /\ pc = "render"
    /\ p \in players
    /\ \E rnd \in HyperspaceDraws :
          ships' = [ships EXCEPT ![p] = RenderShip(@, p, rnd)]
    /\ posted' = <<>>
    /\ pc' = "tick"
    /\ UNCHANGED <<delta_time, fire_gap, shipRest>>

NextShip ==
    \/ \E p \in PlayerIds, is_pressed \in BOOLEAN :
          \E key \in ShipKeys(p) :
             \E rnd \in DrawsFor(p, key, is_pressed) :
                ShipInput(p, key, is_pressed, rnd)
    \/ \E p \in PlayerIds, dt \in ShipDts : ShipUpdate(p, dt)
    \/ \E p \in PlayerIds : ShipRender(p)

SpecShip == InitShip /\ [][NextShip]_vars

\* the frame loop stands between two frames: render has finished
FrameEnd == pc = "tick"

----------------------------------------------------------------------------
(* PLAYER_HIT and HEALTH_POWERUP_PICKUP events delivered to the ships and  *)
(* health bars of a match                                                  *)

\* damage of a PLAYER_HIT: random.randint(10, 20)
HitDamages == {10, 20}

\* entities.powerups.health.base_value
PowerupBaseValue == 5

\* value of a power-up: base_value + random.randint(-10, 10)
HealAmounts == {PowerupBaseValue - 10, PowerupBaseValue, PowerupBaseValue + 10}

\* how far below zero the health specification follows a ship's health and a
\* bar's value
MaxDebt == 20

\* RenderGroup.process_events on the ship group and on the health-bar group
ShipsAfterEvent(e) ==
    [p \in PlayerIds |->
        IF p \in players THEN ProcessEventsShip(ships[p], p, e) ELSE ships[p]]

BarsAfterEvent(e) ==
    [p \in PlayerIds |->
        IF p \in bars THEN ProcessEventsBar(health_bars[p], p, e)
        ELSE health_bars[p]]

healthRest == <<players, bars, projectiles, explosions, thrusts, queue, batch,
                timers, current_state_name, done, next_state,
                previous_state, context, exit_ret, enter_arg, pc, delta_time,
                matches, fire_gap, died_frame, powerup>>

InitHealth ==
    /\ ships = [p \in PlayerIds |-> NewShip]
    /\ players = PlayerIds
    /\ pc = "events"
    /\ InitRest

DeliverHit(target, damage) ==
    LET e == UserEv("PLAYER_HIT", target, damage, NoVec, NoVec)
    IN  /\ ships' = ShipsAfterEvent(e)
        /\ health_bars' = BarsAfterEvent(e)
        /\ posted' = <<>>
        /\ UNCHANGED healthRest

DeliverPickup(player, value) ==
    LET e == UserEv("HEALTH_POWERUP_PICKUP", player, value, NoVec, NoVec)
    IN  /\ \A p \in players : ships[p].health + value >= -MaxDebt
        /\ \A p \in bars : health_bars[p] + value >= -MaxDebt
        /\ ships' = ShipsAfterEvent(e)
        /\ health_bars' = BarsAfterEvent(e)
        /\ posted' = <<>>
        /\ UNCHANGED healthRest

NextHealth ==
    \/ \E target \in PlayerIds, damage \in HitDamages : DeliverHit(target, damage)
    \/ \E player \in PlayerIds, value \in HealAmounts : DeliverPickup(player, value)

SpecHealth == InitHealth /\ [][NextHealth]_vars

----------------------------------------------------------------------------
(* Projectiles                                                             *)

\* half the width and height of a projectile sprite
ProjectileHalf == 2

\* a factory that falls back to a variant for every owner tag
FactoryNeverRaises(player) == FALSE

\* ProjectileFactory.create_projectile: the call ends in
\* raise ValueError(...) for an owner that is none of the player ids
FactoryRaises(player) == player \notin PlayerIds

\* ProjectileFactory.create_projectile: the PLAYER2 variant centres its image
\* on the position it is given
CreateProjectile(player, position, velocity) ==
    [owner |-> player,
     pos |-> IF player = "PLAYER2"
             THEN <<position[1] - ProjectileHalf, position[2] - ProjectileHalf>>
             ELSE position,
     vel |-> velocity]

\* GameObject._in_bounds
InBounds(pos, distance) ==
    LET new_pos == VAdd(pos, distance)
    IN  /\ new_pos[1] >= 0 /\ new_pos[1] <= ScreenWidth
        /\ new_pos[2] >= 0 /\ new_pos[2] <= ScreenHeight

\* Projectile.update: the projectile after the call, and whether it posted
\* PROJECTILE_OUT_OF_SCREEN
ProjectileMoves(pr, dt) == InBounds(pr.pos, VScale(pr.vel, dt))

\* update that moves the projectile whether or not the step stays in bounds
UpdateProjectileAlways(pr, dt) == [pr EXCEPT !.pos = VAdd(pr.pos, VScale(pr.vel, dt))]

UpdateProjectile(pr, dt) ==
    IF ProjectileMoves(pr, dt)
    THEN [pr EXCEPT !.pos = VAdd(pr.pos, VScale(pr.vel, dt))] ELSE pr

\* a reference to a projectile that is in no group any more
NoRef == 0

\* the PROJECTILE_OUT_OF_SCREEN event of the projectile at index ref of the
\* group: amount is the reference to the projectile object, its index in the
\* group while it is a member
OutOfScreenEvent(pr, ref) ==
    UserEv("PROJECTILE_OUT_OF_SCREEN", pr.owner, ref, pr.pos, pr.vel)

\* the events after the projectiles at the indices in removed left the group:
\* a reference to one of them refers to no member, the others follow their
\* projectile to its new index
Rereferenced(events, removed) ==
    [i \in 1..Len(events) |->
        IF events[i].event = "PROJECTILE_OUT_OF_SCREEN" /\ events[i].amount # NoRef
        THEN [events[i] EXCEPT !.amount =
                 IF @ \in removed THEN NoRef
                 ELSE @ - Cardinality({r \in removed : r < @})]
        ELSE events[i]]

\* the centre of a projectile's rect: the sprite is drawn with its top left
\* corner at the position
ProjectileCentre(pr) == <<pr.pos[1] + ProjectileHalf, pr.pos[2] + ProjectileHalf>>

\* pygame.sprite.collide_rect of a ship and a projectile
RectOverlap(s, pr) ==
    /\ Abs(s.rect[1] - ProjectileCentre(pr)[1]) < ShipRectHalf + ProjectileHalf
    /\ Abs(s.rect[2] - ProjectileCentre(pr)[2]) < ShipRectHalf + ProjectileHalf

\* pygame.sprite.collide_mask of a ship and a projectile
MaskOverlap(s, pr) ==
    /\ Abs(s.rect[1] - ProjectileCentre(pr)[1]) < ShipMaskHalf + ProjectileHalf
    /\ Abs(s.rect[2] - ProjectileCentre(pr)[2]) < ShipMaskHalf + ProjectileHalf

\* pygame.sprite.collide_mask of two ships
ShipsMaskOverlap(s1, s2) ==
    /\ Abs(s1.rect[1] - s2.rect[1]) < 2 * ShipMaskHalf
    /\ Abs(s1.rect[2] - s2.rect[2]) < 2 * ShipMaskHalf

----------------------------------------------------------------------------
(* Sequences                                                               *)

\* the subsequence of the elements at the indices in keep
RECURSIVE SelectIdx(_, _, _)
SelectIdx(seq, keep, i) ==
    IF i > Len(seq) THEN <<>>
    ELSE (IF i \in keep THEN <<seq[i]>> ELSE <<>>) \o SelectIdx(seq, keep, i + 1)

\* seq with x inserted so that it becomes element i
InsertAt(seq, i, x) == SubSeq(seq, 1, i - 1) \o <<x>> \o SubSeq(seq, i, Len(seq))

RECURSIVE Concat(_)
Concat(seqs) == IF seqs = <<>> THEN <<>> ELSE Head(seqs) \o Concat(Tail(seqs))

\* the order in which a group holds the ships: the order Gameplay.enter adds them
PlayerOrder == <<"PLAYER1", "PLAYER2">>

\* RenderGroup.sprites() of the ship group
PlayerSprites(group) == SelectSeq(PlayerOrder, LAMBDA p : p \in group)

----------------------------------------------------------------------------
(* Gameplay                                                                *)

\* trigger_delay of Gameplay.__game_over
GameOverDelay == 3000

GameOverEvent(age) == UserEv("GAMEOVER", NoPlayer, age, NoVec, NoVec)

\* __game_over with a trigger delay of zero
SetTimerNow(ts) == <<[remaining |-> 0, age |-> 0]>>

\* pygame.time.set_timer(gameover_event, trigger_delay, 1): pygame keeps one
\* timer per event type, so the new timer replaces a pending one
SetTimer(ts) == <<[remaining |-> GameOverDelay, age |-> 0]>>

\* Gameplay.__kill_player
KillPlayer(group, p) == group \ {p}

\* a __kill_projectile without the membership test: a reference to a
\* projectile that is no longer a member removes the oldest member
KillProjectileUnguarded(prs, e) ==
    IF e.amount \in 1..Len(prs)
    THEN SelectIdx(prs, (1..Len(prs)) \ {e.amount}, 1)
    ELSE IF prs = <<>> THEN prs ELSE Tail(prs)

\* Gameplay.__kill_projectile: the projectile the event refers to leaves the
\* group if it is a member
KillProjectile(prs, e) ==
    IF e.amount \in 1..Len(prs)
    THEN SelectIdx(prs, (1..Len(prs)) \ {e.amount}, 1) ELSE prs

\* Gameplay.enter
EnterShips == [p \in PlayerIds |-> NewShip]

EnterBars == [p \in PlayerIds |-> MaxHealth]

\* the ship x projectile pass of Gameplay.__detect_collisions.  The outer loop
\* runs over the ships whose rect overlaps a projectile; its first round kills
\* every projectile whose mask overlaps any ship, and the ship of that round
\* is the one hit.
RectHitPlayers(sh, group, prs) ==
    SelectSeq(PlayerSprites(group),
              LAMBDA p : \E i \in 1..Len(prs) : RectOverlap(sh[p], prs[i]))

MaskHitProjectiles(sh, group, prs) ==
    {i \in 1..Len(prs) : \E p \in group : MaskOverlap(sh[p], prs[i])}

ProjectileHit(sh, group, prs) ==
    RectHitPlayers(sh, group, prs) # <<>> /\ MaskHitProjectiles(sh, group, prs) # {}

HitPlayer(sh, group, prs) == Head(RectHitPlayers(sh, group, prs))

\* the indices of the projectiles the pass removes
RemovedByPass(sh, group, prs) ==
    IF ProjectileHit(sh, group, prs) THEN MaskHitProjectiles(sh, group, prs) ELSE {}

ProjectilesAfterPass(sh, group, prs) ==
    SelectIdx(prs, (1..Len(prs)) \ RemovedByPass(sh, group, prs), 1)

\* the ship x ship test without the comparison of the positions
ShipsCollideAnywhere(sh, group) ==
    group = PlayerIds /\ ShipsMaskOverlap(sh["PLAYER1"], sh["PLAYER2"])

\* the ship x ship pass of Gameplay.__detect_collisions
ShipsCollide(sh, group) ==
    /\ group = PlayerIds
    /\ sh["PLAYER1"].pos # sh["PLAYER2"].pos
    /\ ShipsMaskOverlap(sh["PLAYER1"], sh["PLAYER2"])

ExplosionsOfPass(sh, group, prs) ==
    (IF ProjectileHit(sh, group, prs) THEN <<sh[HitPlayer(sh, group, prs)].pos>> ELSE <<>>)
    \o (IF ShipsCollide(sh, group)
        THEN <<sh["PLAYER1"].pos, sh["PLAYER2"].pos>> ELSE <<>>)

PlayersAfterPass(sh, group) ==
    IF ShipsCollide(sh, group)
    THEN KillPlayer(KillPlayer(group, "PLAYER1"), "PLAYER2") ELSE group

HitEvents(sh, group, prs, damage) ==
    IF ProjectileHit(sh, group, prs)
    THEN <<UserEv("PLAYER_HIT", HitPlayer(sh, group, prs), damage, NoVec, NoVec)>>
    ELSE <<>>

\* RenderGroup.update on the ship group: the ships after it, the events posted
ShipsAfterUpdate(sh, group, dt) ==
    [p \in PlayerIds |-> IF p \in group THEN UpdateShip(sh[p], p, dt).ship ELSE sh[p]]

ShipUpdatePosts(sh, group, dt) ==
    LET order == PlayerSprites(group)
    IN  Concat([i \in 1..Len(order) |-> UpdateShip(sh[order[i]], order[i], dt).posts])

\* RenderGroup.update on the projectile group
ProjectilesAfterUpdate(prs, dt) ==
    [i \in 1..Len(prs) |-> UpdateProjectile(prs[i], dt)]

ProjectileUpdatePosts(prs, dt) ==
    Concat([i \in 1..Len(prs) |->
               IF ProjectileMoves(prs[i], dt) THEN <<>>
               ELSE <<OutOfScreenEvent(prs[i], i)>>])

\* a handle_input that reaches the ships that have left the group as well
ShipsAfterInputAll(sh, group, key, is_pressed, rnd) ==
    [p \in PlayerIds |-> HandleInput(sh[p], p, key, is_pressed, rnd).ship]

\* RenderGroup.handle_input on the ship group
ShipsAfterInput(sh, group, key, is_pressed, rnd) ==
    [p \in PlayerIds |->
        IF p \in group THEN HandleInput(sh[p], p, key, is_pressed, rnd).ship ELSE sh[p]]

ShipInputPosts(sh, group, key, is_pressed, rnd) ==
    LET order == PlayerSprites(group)
    IN  Concat([i \in 1..Len(order) |->
                   HandleInput(sh[order[i]], order[i], key, is_pressed, rnd).posts])

\* RenderGroup.render on the ship group
ShipsAfterRender(sh, group, rnd) ==
    [p \in PlayerIds |-> IF p \in group THEN RenderShip(sh[p], p, rnd) ELSE sh[p]]

----------------------------------------------------------------------------
(* The phases                                                              *)

\* what a parameter holds when the call passes no argument for it
MissingArg == "MISSING"

\* Intro.enter and GameOver.enter take the context, Gameplay.enter takes none
\* and constructs the ships and the health bars
EnterPosts(n) ==
    IF n = "INTRO" THEN <<UserEv("INTRO", NoPlayer, 0, NoVec, NoVec)>> ELSE <<>>

ContextAfterEnter(ctx, n, arg) ==
    IF n = "GAME_OVER" THEN [ctx EXCEPT ![n] = arg] ELSE ctx

\* Intro.exit and GameOver.exit return their context; Gameplay.exit empties
\* its groups and returns None
ExitReturn(ctx, n) == IF n = "GAMEPLAY" THEN NoContext ELSE ctx[n]

\* an enter that leaves the done flag as the last visit set it
DoneKeptOnEnter(d, n) == d

\* enter of Intro, Gameplay and GameOver: self.done = False
DoneAfterEnter(d, n) == [d EXCEPT ![n] = FALSE]

\* Intro.handle_input and GameOver.handle_input
PhaseDoneAfterInput(d, e) == d \/ e.kind = "KEYDOWN"

----------------------------------------------------------------------------
(* The application: the frame loop of App.run over the state manager       *)

\* values Clock.tick returns, in milliseconds
FrameDts == {1000, 2000}

\* positions the hyperspace draws produce
MainDraws == {<<100, 140>>, <<100, 120>>}

\* keyboard events of a run: each ship fires, the second ship jumps, a key is
\* released
MainKeyEvents ==
    {KeyEv("KEYDOWN", Controls(p).fire) : p \in PlayerIds}
        \cup {KeyEv("KEYDOWN", Controls("PLAYER2").hyperspace),
              KeyEv("KEYUP", Controls("PLAYER1").fire)}

\* damage a PLAYER_HIT of a run carries: the largest random.randint(10, 20)
\* draws, which takes all the health of a ship
MainDamages == {20}

\* keyboard events arriving between two polls of the event queue
MaxKeys == 1

\* entries of Gameplay that are counted
MaxMatches == 2

KeysIn(q) == Len(SelectSeq(q, LAMBDA e : e.kind # "USEREVENT"))

\* a pygame timer after dt milliseconds
Aged(t, dt) ==
    [remaining |-> t.remaining - dt, age |-> Min(GameOverDelay, t.age + dt)]

Due(t) == t.remaining <= 0

Init ==
    /\ ships = EnterShips
    /\ players = {}
    /\ health_bars = EnterBars
    /\ bars = {}
    /\ projectiles = <<>>
    /\ explosions = <<>>
    /\ thrusts = 0
    /\ queue = EnterPosts("INTRO")
    /\ batch = <<>>
    /\ posted = <<>>
    /\ timers = <<>>
    /\ current_state_name = "INTRO"
    /\ done = [n \in StateNames |-> FALSE]
    /\ next_state = InitNextState
    /\ previous_state = [n \in StateNames |-> "NONE"]
    /\ context = InitContext
    /\ exit_ret = NoContext
    /\ enter_arg = MissingArg
    /\ pc = "tick"
    /\ delta_time = 0
    /\ matches = 0
    /\ fire_gap = [p \in PlayerIds |-> NoGap]
    /\ died_frame = FALSE
    /\ powerup = NoPowerup

gameplayVars == <<ships, players, health_bars, bars, projectiles, explosions, thrusts>>

managerVars == <<current_state_name, done, next_state, previous_state, context,
                 exit_ret, enter_arg, matches>>

\* Clock.tick: the frame's delta time; the pending timers run on
Tick(dt) ==
    /\ pc = "tick"
    /\ pc' = "poll"
    /\ delta_time' = dt
    /\ timers' = [i \in 1..Len(timers) |-> Aged(timers[i], dt)]
    /\ posted' = <<>>
    /\ UNCHANGED <<powerup, gameplayVars, managerVars, queue, batch, fire_gap, died_frame>>

\* the user presses or releases a key
KeyArrives(e) ==
    /\ pc = "poll"
    /\ KeysIn(queue) < MaxKeys
    /\ queue' = Append(queue, e)
    /\ posted' = <<>>
    /\ UNCHANGED <<powerup, gameplayVars, managerVars, batch, timers, pc,
                   delta_time, fire_gap, died_frame>>

\* the one-shot timer expires: its event joins the queue, before or after the
\* events that were posted while it ran
TimerFires(at) ==
    /\ pc = "poll"
    /\ timers # <<>>
    /\ Due(Head(timers))
    /\ at \in 1..(Len(queue) + 1)
    /\ queue' = InsertAt(queue, at, GameOverEvent(Head(timers).age))
    /\ timers' = Tail(timers)
    /\ posted' = <<>>
    /\ UNCHANGED <<powerup, gameplayVars, managerVars, batch, pc,
                   delta_time, fire_gap, died_frame>>

\* an event pass that reads the queue without emptying it
GetEventsPeeking ==
    /\ pc = "poll"
    /\ \A i \in 1..Len(timers) : ~Due(timers[i])
    /\ batch' = queue
    /\ pc' = "events"
    /\ died_frame' = FALSE
    /\ posted' = <<>>
    /\ UNCHANGED <<powerup, gameplayVars, managerVars, timers, delta_time,
                   fire_gap, queue>>

\* pygame.event.get() in App.__process_events
GetEvents ==
    /\ pc = "poll"
    /\ \A i \in 1..Len(timers) : ~Due(timers[i])
    /\ batch' = queue
    /\ queue' = <<>>
    /\ pc' = "events"
    /\ died_frame' = FALSE
    /\ posted' = <<>>
    /\ UNCHANGED <<powerup, gameplayVars, managerVars, timers, delta_time,
                   fire_gap>>

\* the groups of Gameplay as one record
Groups ==
    [ships |-> ships, players |-> players, health_bars |-> health_bars,
     bars |-> bars, projectiles |-> projectiles, explosions |-> explosions,
     thrusts |-> thrusts]

\* a transition that never calls exit on the state it leaves
GameplayExitSkipped(g) == g

\* exit that empties the ship group only
GameplayExitKeeps(g) == [g EXCEPT !.players = {}, !.bars = {}]

\* Gameplay.exit
GameplayExit(g) ==
    [g EXCEPT !.players = {}, !.projectiles = <<>>, !.explosions = <<>>,
              !.thrusts = 0, !.bars = {}]

\* Gameplay.enter
GameplayEnter(g) ==
    [g EXCEPT !.ships = EnterShips, !.players = g.players \cup PlayerIds,
              !.health_bars = EnterBars, !.bars = g.bars \cup PlayerIds]

\* a Gameplay.update that detects collisions first and updates the groups
\* afterwards
GameplayUpdatePassFirst(g, dt, damage) ==
    [g |-> [g EXCEPT
              !.ships = ShipsAfterUpdate(g.ships, PlayersAfterPass(g.ships, g.players), dt),
              !.projectiles =
                  ProjectilesAfterUpdate(
                      ProjectilesAfterPass(g.ships, g.players, g.projectiles), dt),
              !.explosions =
                  g.explosions \o ExplosionsOfPass(g.ships, g.players, g.projectiles),
              !.players = PlayersAfterPass(g.ships, g.players)],
     posts |-> HitEvents(g.ships, g.players, g.projectiles, damage)
                 \o ShipUpdatePosts(g.ships, PlayersAfterPass(g.ships, g.players), dt)
                 \o ProjectileUpdatePosts(
                        ProjectilesAfterPass(g.ships, g.players, g.projectiles), dt)]

\* Gameplay.update: the groups after the call and the events it posted
GameplayUpdate(g, dt, damage) ==
    LET sh == ShipsAfterUpdate(g.ships, g.players, dt)
        prs == ProjectilesAfterUpdate(g.projectiles, dt)
    IN  [g |-> [g EXCEPT
                  !.ships = sh,
                  !.projectiles = ProjectilesAfterPass(sh, g.players, prs),
                  !.explosions = g.explosions \o ExplosionsOfPass(sh, g.players, prs),
                  !.players = PlayersAfterPass(sh, g.players)],
         posts |-> ShipUpdatePosts(g.ships, g.players, dt)
                     \o Rereferenced(ProjectileUpdatePosts(g.projectiles, dt),
                                     RemovedByPass(sh, g.players, prs))
                     \o HitEvents(sh, g.players, prs, damage)]

\* the indices of the projectiles Gameplay.__handle_events removes
KilledRefs(prs, e) ==
    IF e.event = "PROJECTILE_OUT_OF_SCREEN" /\ e.amount \in 1..Len(prs)
    THEN {e.amount} ELSE {}

\* Gameplay.__handle_events on the projectile group
ProjectilesAfterEvent(prs, e) ==
    IF e.event = "PLAYER1_FIRES"
    THEN Append(prs, CreateProjectile("PLAYER1", e.pos, e.vel))
    ELSE IF e.event = "PLAYER2_FIRES"
    THEN Append(prs, CreateProjectile("PLAYER2", e.pos, e.vel))
    ELSE IF e.event = "PROJECTILE_OUT_OF_SCREEN" THEN KillProjectile(prs, e)
    ELSE prs

\* StateManager.process_events while Intro or GameOver is current: a key
\* event goes to handle_input, a user event to process_events
PhaseDispatch ==
    /\ pc = "events"
    /\ batch # <<>>
    /\ current_state_name # "GAMEPLAY"
    /\ batch' = Tail(batch)
    /\ done' = [done EXCEPT ![current_state_name] =
                   IF Head(batch).kind = "USEREVENT" THEN @
                   ELSE PhaseDoneAfterInput(@, Head(batch))]
    /\ posted' = <<>>
    /\ UNCHANGED <<powerup, gameplayVars, current_state_name, next_state, previous_state,
                   context, exit_ret, enter_arg, matches, queue, timers,
                   pc, delta_time, fire_gap, died_frame>>

\* StateManager.process_events of a key event while Gameplay is current:
\* Gameplay.handle_input
GameplayInput(rnd) ==
    /\ pc = "events"
    /\ batch # <<>>
    /\ current_state_name = "GAMEPLAY"
    /\ Head(batch).kind # "USEREVENT"
    /\ LET e == Head(batch)
           is_pressed == e.kind = "KEYDOWN"
       IN  /\ ships' = ShipsAfterInput(ships, players, e.key, is_pressed, rnd)
           /\ posted' = ShipInputPosts(ships, players, e.key, is_pressed, rnd)
    /\ queue' = queue \o posted'
    /\ batch' = Tail(batch)
    /\ UNCHANGED <<powerup, players, health_bars, bars, projectiles, explosions, thrusts,
                   managerVars, timers, pc, delta_time, fire_gap,
                   died_frame>>

\* StateManager.process_events of a user event while Gameplay is current:
\* Gameplay.process_events
GameplayEvent ==
    /\ pc = "events"
    /\ batch # <<>>
    /\ current_state_name = "GAMEPLAY"
    /\ Head(batch).kind = "USEREVENT"
    /\ LET e == Head(batch)
       IN  /\ projectiles' = ProjectilesAfterEvent(projectiles, e)
           /\ thrusts' = IF e.event = "THRUST" THEN thrusts + 1 ELSE thrusts
           /\ players' = IF e.event = "PLAYER_DIED" THEN KillPlayer(players, e.player)
                         ELSE players
           /\ timers' = IF e.event = "PLAYER_DIED" THEN SetTimer(timers)
                        ELSE timers
           /\ done' = IF e.event = "GAMEOVER"
                      THEN [done EXCEPT !["GAMEPLAY"] = TRUE] ELSE done
           /\ ships' = ShipsAfterEvent(e)
           /\ health_bars' = BarsAfterEvent(e)
           /\ died_frame' = (died_frame \/ e.event = "PLAYER_DIED")
           /\ batch' = Rereferenced(Tail(batch), KilledRefs(projectiles, e))
           /\ queue' = Rereferenced(queue, KilledRefs(projectiles, e))
    /\ posted' = <<>>
    /\ UNCHANGED <<powerup, bars, explosions, current_state_name, next_state,
                   previous_state, context, exit_ret, enter_arg, matches,
                   pc, delta_time, fire_gap>>

\* StateManager.update: __change_state when the current state is done, then
\* the update of the state that is current after it
Update(damage) ==
    /\ pc = "events"
    /\ batch = <<>>
    /\ LET changing == done[current_state_name]
           leaving == current_state_name
           name == IF changing THEN next_state[leaving] ELSE leaving
           g1 == IF changing /\ leaving = "GAMEPLAY" THEN GameplayExit(Groups) ELSE Groups
           g2 == IF changing /\ name = "GAMEPLAY" THEN GameplayEnter(g1) ELSE g1
           r  == IF name = "GAMEPLAY" THEN GameplayUpdate(g2, delta_time, damage)
                 ELSE [g |-> g2, posts |-> <<>>]
       IN  /\ current_state_name' = name
           /\ previous_state' = IF changing
                                THEN [previous_state EXCEPT ![name] = leaving]
                                ELSE previous_state
           /\ exit_ret' = IF changing THEN ExitReturn(context, leaving) ELSE exit_ret
           /\ enter_arg' = IF changing THEN MissingArg ELSE enter_arg
           /\ context' = IF changing THEN ContextAfterEnter(context, name, MissingArg)
                         ELSE context
           /\ done' = IF changing THEN DoneAfterEnter(done, name) ELSE done
           /\ matches' = IF changing /\ name = "GAMEPLAY"
                         THEN Min(matches + 1, MaxMatches) ELSE matches
           /\ ships' = r.g.ships
           /\ players' = r.g.players
           /\ health_bars' = r.g.health_bars
           /\ bars' = r.g.bars
           /\ projectiles' = r.g.projectiles
           /\ explosions' = r.g.explosions
           /\ thrusts' = r.g.thrusts
           /\ posted' = (IF changing THEN EnterPosts(name) ELSE <<>>) \o r.posts
    /\ queue' = queue \o posted'
    /\ pc' = "render"
    /\ UNCHANGED <<powerup, next_state, batch, timers, delta_time, fire_gap,
                   died_frame>>

\* StateManager.render
Render(rnd) ==
    /\ pc = "render"
    /\ ships' = IF current_state_name = "GAMEPLAY"
                THEN ShipsAfterRender(ships, players, rnd) ELSE ships
    /\ pc' = "tick"
    /\ posted' = <<>>
    /\ UNCHANGED <<powerup, players, health_bars, bars, projectiles, explosions, thrusts,
                   managerVars, queue, batch, timers, delta_time,
                   fire_gap, died_frame>>

Next ==
    \/ \E dt \in FrameDts : Tick(dt)
    \/ \E e \in MainKeyEvents : KeyArrives(e)
    \/ \E at \in 1..4 : TimerFires(at)
    \/ GetEvents
    \/ PhaseDispatch
    \/ \E rnd \in MainDraws : GameplayInput(rnd)
    \/ GameplayEvent
    \/ \E damage \in MainDamages : Update(damage)
    \/ \E rnd \in MainDraws : Render(rnd)

Spec == Init /\ [][Next]_vars

----------------------------------------------------------------------------
(* The angle normalisation of Player.render applied to a ship whose angle  *)
(* is any integer of a bounded range                                       *)

\* the angles a ship is given
AngleInputs == (-360)..720

angleRest == <<players, health_bars, bars, projectiles, explosions, thrusts,
               queue, batch, timers, current_state_name, done, next_state,
               previous_state, context, exit_ret, enter_arg, delta_time,
               matches, fire_gap, died_frame, powerup>>

InitAngle ==
    /\ \E a \in AngleInputs :
          ships = [p \in PlayerIds |-> [NewShip EXCEPT !.angle = a]]
    /\ players = {"PLAYER1"}
    /\ pc = "render"
    /\ InitRest

\* the __normalise_angle call of Player.render
NormaliseStep(p) ==
    /\ pc = "render"
    /\ p \in players
    /\ ships' = [ships EXCEPT ![p].angle = NormaliseAngle(@)]
    /\ posted' = <<>>
    /\ pc' = "tick"
    /\ UNCHANGED angleRest

NextAngle == \E p \in PlayerIds : NormaliseStep(p)

SpecAngle == InitAngle /\ [][NextAngle]_vars

----------------------------------------------------------------------------
(* A match followed at a fine time step, from a point at which the ships   *)
(* stand where the match has taken them: the projectiles fly, hit and      *)
(* leave the screen                                                        *)

\* values Clock.tick returns, in milliseconds
MatchDts == {50}

\* where the first ship stands, facing down the screen
MatchStart1 == <<100, 30>>

\* where the second ship stands, facing up: below the top edge, and in the
\* first ship's line of fire
MatchStarts == {<<200, 20>>, <<100, 125>>}

\* the velocity of the second ship: at rest, or drifting up the screen after
\* a thrust
MatchVelocities == {<<0, 0>>, <<0, -1>>}

\* keyboard events of the match: each ship fires
MatchKeyEvents == {KeyEv("KEYDOWN", Controls(p).fire) : p \in PlayerIds}

\* a ship after Player.render and Player.update have placed it
PlacedShip(pos, angle) ==
    [NewShip EXCEPT !.pos = pos, !.angle = angle, !.rect = pos]

\* the second ship drifting towards the bottom right corner of the screen,
\* which it leaves past both edges within one frame
CornerShip == [PlacedShip(<<255, 155>>, 0) EXCEPT !.vel = <<1, 1>>]

\* a projectile of the first ship in flight along the bottom edge, towards
\* the same corner
CornerShot == [pos |-> <<245, 195>>, vel |-> <<1, 0>>, owner |-> "PLAYER1"]

InitMatch ==
    /\ \/ /\ \E start \in MatchStarts, velocity \in MatchVelocities :
                ships = [p \in PlayerIds |->
                            IF p = "PLAYER1" THEN PlacedShip(MatchStart1, 180)
                            ELSE [PlacedShip(start, 0) EXCEPT !.vel = velocity]]
          /\ projectiles = <<>>
       \/ /\ ships = [p \in PlayerIds |->
                            IF p = "PLAYER1" THEN PlacedShip(MatchStart1, 180)
                            ELSE CornerShip]
          /\ projectiles = <<CornerShot>>
    /\ players = PlayerIds
    /\ health_bars = EnterBars
    /\ bars = PlayerIds
    /\ explosions = <<>>
    /\ thrusts = 0
    /\ queue = <<>>
    /\ batch = <<>>
    /\ posted = <<>>
    /\ timers = <<>>
    /\ current_state_name = "GAMEPLAY"
    /\ done = [n \in StateNames |-> FALSE]
    /\ next_state = InitNextState
    /\ previous_state = [n \in StateNames |->
                            IF n = "GAMEPLAY" THEN "INTRO" ELSE "NONE"]
    /\ context = InitContext
    /\ exit_ret = InitContext["INTRO"]
    /\ enter_arg = MissingArg
    /\ pc = "tick"
    /\ delta_time = 0
    /\ matches = 1
    /\ fire_gap = [p \in PlayerIds |-> NoGap]
    /\ died_frame = FALSE
    /\ powerup = NoPowerup

NextMatch ==
    \/ \E dt \in MatchDts : Tick(dt)
    \/ \E e \in MatchKeyEvents : KeyArrives(e)
    \/ \E at \in 1..4 : TimerFires(at)
    \/ GetEvents
    \/ PhaseDispatch
    \/ GameplayInput(NoVec)
    \/ GameplayEvent
    \/ \E damage \in HitDamages : Update(damage)
    \/ Render(NoVec)

SpecMatch == InitMatch /\ [][NextMatch]_vars

\* the match with a frame loop that keeps running: App.run leaves its loop
\* only when the application is closed, so a step of the loop that can be
\* taken is taken
SpecMatchLive == SpecMatch /\ WF_vars(NextMatch)

----------------------------------------------------------------------------
(* A Powerup driven through the frame loop: the events of the frame go to  *)
(* process_events, then update runs.  The despawn timer runs on pygame's   *)
(* timer thread and posts its event whenever it expires, also while the    *)
(* handlers of the frame are running.                                      *)

\* durations Powerup.__init__ draws
PowerupDurations == {PowerupBaseDuration, PowerupBaseDuration + 2000}

\* time the frame loop waits in Clock.tick, and time the handlers of a frame
\* take, in milliseconds
WaitDts == {1000}
WorkDts == {0, 1000}

\* positions Powerup.update draws: random.randint(50, width - 50) and
\* random.randint(50, height - 50)
PowerupDraws == {<<50, 50>>, <<ScreenWidth - 50, ScreenHeight - 50>>}

\* spawns of a run
MaxSpawns == 3

\* the pickup a ship's overlap with the power-up publishes
PickupEvent ==
    UserEv("HEALTH_POWERUP_PICKUP", "PLAYER1", PowerupBaseValue, NoVec, NoVec)

powerupRest == <<ships, players, health_bars, bars, projectiles, explosions,
                 thrusts, current_state_name, done, next_state,
                 previous_state, context, exit_ret, enter_arg, matches,
                 fire_gap, died_frame>>

InitPowerup ==
    /\ ships = [p \in PlayerIds |-> NewShip]
    /\ players = PlayerIds
    /\ pc = "tick"
    /\ \E duration \in PowerupDurations : powerup = NewPowerup(duration)
    /\ health_bars = [p \in PlayerIds |-> MaxHealth]
    /\ bars = PlayerIds
    /\ projectiles = <<>>
    /\ explosions = <<>>
    /\ thrusts = 0
    /\ queue = <<>>
    /\ batch = <<>>
    /\ posted = <<>>
    /\ timers = <<>>
    /\ current_state_name = "GAMEPLAY"
    /\ done = [n \in StateNames |-> FALSE]
    /\ next_state = InitNextState
    /\ previous_state = [n \in StateNames |-> "NONE"]
    /\ context = InitContext
    /\ exit_ret = NoContext
    /\ enter_arg = NoContext
    /\ delta_time = 0
    /\ matches = 1
    /\ fire_gap = [p \in PlayerIds |-> NoGap]
    /\ died_frame = FALSE

\* a running timer after dt milliseconds
Run(t, dt) == [t EXCEPT !.remaining = @ - dt]

\* Clock.tick
PowerupTick(dt) ==
    /\ pc = "tick"
    /\ delta_time' = dt
    /\ timers' = [i \in 1..Len(timers) |-> Run(timers[i], dt)]
    /\ pc' = "poll"
    /\ posted' = <<>>
    /\ UNCHANGED <<powerup, queue, batch, powerupRest>>

\* the despawn timer expires, while the loop waits or while its handlers run:
\* the removal event joins the queue and the timer starts its next interval
DespawnTimerFires ==
    /\ pc \in {"poll", "update"}
    /\ timers # <<>>
    /\ Due(Head(timers))
    /\ queue' = Append(queue, RemovalEvent(Head(timers).spawn))
    /\ timers' = <<[Head(timers) EXCEPT !.remaining = @ + Head(timers).interval]>>
    /\ posted' = <<>>
    /\ UNCHANGED <<powerup, batch, pc, delta_time, powerupRest>>

\* a ship reaches the spawned power-up
PickupArrives ==
    /\ pc = "poll"
    /\ powerup.spawned
    /\ \A i \in 1..Len(queue) : queue[i].event # "HEALTH_POWERUP_PICKUP"
    /\ queue' = Append(queue, PickupEvent)
    /\ posted' = <<>>
    /\ UNCHANGED <<powerup, batch, timers, pc, delta_time, powerupRest>>

\* pygame.event.get()
PowerupGetEvents ==
    /\ pc = "poll"
    /\ \A i \in 1..Len(timers) : ~Due(timers[i])
    /\ batch' = queue
    /\ queue' = <<>>
    /\ pc' = "events"
    /\ posted' = <<>>
    /\ UNCHANGED <<powerup, timers, delta_time, powerupRest>>

\* Powerup.process_events of the next event of the frame
PowerupEvent ==
    /\ pc = "events"
    /\ batch # <<>>
    /\ powerup' = ProcessEventsPowerup(powerup, Head(batch))
    /\ batch' = Tail(batch)
    /\ posted' = <<>>
    /\ UNCHANGED <<queue, timers, pc, delta_time, powerupRest>>

\* the handlers of the frame have taken dt milliseconds when update is reached
PowerupWork(dt) ==
    /\ pc = "events"
    /\ batch = <<>>
    /\ timers' = [i \in 1..Len(timers) |-> Run(timers[i], dt)]
    /\ pc' = "update"
    /\ posted' = <<>>
    /\ UNCHANGED <<powerup, queue, batch, delta_time, powerupRest>>

\* Powerup.update
PowerupUpdate(lucky, position) ==
    /\ pc = "update"
    /\ \A i \in 1..Len(timers) : ~Due(timers[i])
    /\ Spawns(powerup, lucky) => powerup.spawns < MaxSpawns
    /\ powerup' = UpdatePowerup(powerup, lucky, position)
    /\ timers' = TimersAfterUpdate(timers, powerup, lucky)
    /\ pc' = "tick"
    /\ posted' = <<>>
    /\ UNCHANGED <<queue, batch, delta_time, powerupRest>>

NextPowerup ==
    \/ \E dt \in WaitDts : PowerupTick(dt)
    \/ DespawnTimerFires
    \/ PickupArrives
    \/ PowerupGetEvents
    \/ PowerupEvent
    \/ \E dt \in WorkDts : PowerupWork(dt)
    \/ \E lucky \in BOOLEAN, position \in PowerupDraws : PowerupUpdate(lucky, position)

SpecPowerup == InitPowerup /\ [][NextPowerup]_vars

----------------------------------------------------------------------------
(* ProjectileFactory.create_projectile called with any owner tag           *)

\* owner tags a caller can hand to the factory: the two player ids and two
\* that are none of them
OwnerTags == PlayerIds \cup {NoPlayer, "PLAYER3"}

\* positions and velocities of the calls
FactoryPositions ==
    {<<0, 0>>, <<100, 100>>, <<ScreenWidth, ScreenHeight>>, <<150, -30>>, <<20, 180>>}
FactoryVelocities == {<<0, 0>>, <<0, -1>>, <<1, 0>>, <<-2, 3>>}

\* the arguments of a call
FactoryRequest(player, position, velocity) ==
    UserEv("CREATE_PROJECTILE", player, 0, position, velocity)

factoryRest == <<ships, players, health_bars, bars, explosions, thrusts, queue,
                 timers, current_state_name, done, next_state,
                 previous_state, context, exit_ret, enter_arg, delta_time,
                 matches, fire_gap, died_frame, powerup>>

InitFactory ==
    /\ ships = [p \in PlayerIds |-> NewShip]
    /\ players = PlayerIds
    /\ pc = "call"
    /\ \E player \in OwnerTags, position \in FactoryPositions,
          velocity \in FactoryVelocities :
          batch = <<FactoryRequest(player, position, velocity)>>
    /\ health_bars = [p \in PlayerIds |-> MaxHealth]
    /\ bars = PlayerIds
    /\ projectiles = <<>>
    /\ explosions = <<>>
    /\ thrusts = 0
    /\ queue = <<>>
    /\ posted = <<>>
    /\ timers = <<>>
    /\ current_state_name = "GAMEPLAY"
    /\ done = [n \in StateNames |-> FALSE]
    /\ next_state = InitNextState
    /\ previous_state = [n \in StateNames |-> "NONE"]
    /\ context = InitContext
    /\ exit_ret = NoContext
    /\ enter_arg = NoContext
    /\ delta_time = 0
    /\ matches = 1
    /\ fire_gap = [p \in PlayerIds |-> NoGap]
    /\ died_frame = FALSE
    /\ powerup = NoPowerup

\* ProjectileFactory.create_projectile: the call returns a projectile, which
\* the caller keeps, or is left by a ValueError
CreateProjectileCall ==
    /\ pc = "call"
    /\ batch # <<>>
    /\ IF FactoryRaises(Head(batch).player)
       THEN /\ pc' = "ValueError"
            /\ projectiles' = projectiles
       ELSE /\ pc' = "returned"
            /\ projectiles' = Append(projectiles,
                                     CreateProjectile(Head(batch).player,
                                                      Head(batch).pos,
                                                      Head(batch).vel))
    /\ batch' = Tail(batch)
    /\ posted' = <<>>
    /\ UNCHANGED factoryRest

NextFactory == CreateProjectileCall

SpecFactory == InitFactory /\ [][NextFactory]_vars

----------------------------------------------------------------------------
(* The Thrust effect and its particles.  A Thrust is in Gameplay's thrust  *)
(* group from the THRUST event that spawns it to the THRUST_EXHAUSTED      *)
(* event it posts once its particle group is empty.  Where the particles   *)
(* are followed, thrusts is the sequence of the Thrust objects; a Thrust   *)
(* is told from the others by id, the identity of the object.  Particle    *)
(* positions are floats in the code, hundredths of a pixel here.           *)

\* hundredths of a pixel in a pixel
ParticleScale == 100

\* Particle.speed: uniform(0.02, 0.07) pixels per millisecond, in hundredths
ParticleSpeeds == {2, 7}

\* Particle.__init__: the alpha a particle starts with
FullAlpha == 255

\* the particles Thrust.__init__ spawns (5 in the code)
ParticlesPerThrust == 2

\* Particle.__fade: round(fade_rate * delta_time) with fade_rate 0.1; Python
\* rounds a tie to the even neighbour
FadeStep(dt) ==
    IF dt % 10 < 5 THEN dt \div 10
    ELSE IF dt % 10 > 5 THEN dt \div 10 + 1
    ELSE IF (dt \div 10) % 2 = 0 THEN dt \div 10 ELSE dt \div 10 + 1

\* the integer a Rect takes for a float coordinate
Truncated(x) ==
    IF x >= 0 THEN x \div ParticleScale ELSE 0 - ((0 - x) \div ParticleScale)

\* Particle.__init__
NewParticle(position, speed) ==
    [pos |-> VScale(position, ParticleScale), alpha |-> FullAlpha, speed |-> speed]

\* Particle.__move and Particle.__fade
UpdateParticle(pt, direction, dt) ==
    [pt EXCEPT !.pos = VAdd(pt.pos, VScale(direction, pt.speed * dt)),
               !.alpha = pt.alpha - FadeStep(dt)]

\* rect.center of a particle
ParticleCentre(pt) == <<Truncated(pt.pos[1]), Truncated(pt.pos[2])>>

\* Particle.__check_alpha and Particle.__check_position: the particle kills
\* itself, which takes it out of its group
ParticleKilled(pt) ==
    \/ pt.alpha <= 0
    \/ ParticleCentre(pt)[1] < 0 \/ ParticleCentre(pt)[1] > ScreenWidth
    \/ ParticleCentre(pt)[2] < 0 \/ ParticleCentre(pt)[2] > ScreenHeight

\* Thrust.__init__ for the THRUST event e, speeds the speeds its particles draw
NewThrust(e, speeds) ==
    [id |-> e.amount, dir |-> e.vel,
     particles |-> [i \in 1..ParticlesPerThrust |-> NewParticle(e.pos, speeds[i])]]

\* particle_group.update in Thrust.update: the particles left in the group
ParticlesAfterUpdate(th, dt) ==
    SelectSeq([i \in 1..Len(th.particles) |->
                  UpdateParticle(th.particles[i], th.dir, dt)],
              LAMBDA pt : ~ParticleKilled(pt))

\* Thrust.update: the Thrust after the call, and the event it posts when its
\* group is empty
UpdateThrust(th, dt) == [th EXCEPT !.particles = ParticlesAfterUpdate(th, dt)]

ThrustUpdatePosts(th, dt) ==
    IF Len(ParticlesAfterUpdate(th, dt)) <= 0
    THEN <<UserEv("THRUST_EXHAUSTED", NoPlayer, th.id, NoVec, NoVec)>>
    ELSE <<>>

\* a removal that takes the oldest Thrust of the group, whatever the event
KillThrustOldest(ths, e) == IF ths = <<>> THEN ths ELSE Tail(ths)

\* Gameplay.__kill_thrust
KillThrust(ths, e) ==
    IF \E i \in 1..Len(ths) : ths[i].id = e.amount
    THEN SelectSeq(ths, LAMBDA th : th.id # e.amount) ELSE ths

\* Gameplay.__handle_events on the thrust group
ThrustsAfterEvent(ths, e, speeds) ==
    IF e.event = "THRUST" THEN Append(ths, NewThrust(e, speeds))
    ELSE IF e.event = "THRUST_EXHAUSTED" THEN KillThrust(ths, e)
    ELSE ths

----------------------------------------------------------------------------
(* Thrust effects followed through the frame loop: the THRUST events of    *)
(* accelerating ships are in the queue, Gameplay spawns a Thrust for each, *)
(* updates the group every frame and removes a Thrust on its event.  A     *)
(* ship may have died before, so that the game-over timer is running and   *)
(* the match ends while Thrusts are in the group.                          *)

\* values Clock.tick returns, in milliseconds: the largest delta whose tenth
\* rounds to no step of alpha, and a frame that takes seconds
ThrustDts == {5, 3000}

\* an accelerating ship near the bottom edge, facing up, at rest
NearShip == PlacedShip(<<150, 184>>, 0)

\* an accelerating ship further up, facing up, at full speed ahead
FarShip == [PlacedShip(<<150, 120>>, 0) EXCEPT !.vel = <<0, 0 - ShipMaxSpeed>>]

\* the THRUST event of a ship, n the identity of the Thrust it will spawn
ThrustEventNumbered(s, n) == [ThrustEventOf(s) EXCEPT !.amount = n]

\* the THRUST events waiting at the start, and the game-over timer: running
\* when a ship has died before
ThrustScenes ==
    {[queue |-> <<ThrustEventNumbered(FarShip, 1)>>, timers |-> <<>>],
     [queue |-> <<ThrustEventNumbered(FarShip, 1), ThrustEventNumbered(NearShip, 2)>>,
      timers |-> <<>>],
     [queue |-> <<ThrustEventNumbered(NearShip, 1), ThrustEventNumbered(NearShip, 2)>>,
      timers |-> SetTimer(<<>>)]}

InitThrust ==
    /\ ships = [p \in PlayerIds |-> NewShip]
    /\ players = PlayerIds
    /\ pc = "tick"
    /\ thrusts = <<>>
    /\ \E scene \in ThrustScenes : queue = scene.queue /\ timers = scene.timers
    /\ batch = <<>>
    /\ health_bars = [p \in PlayerIds |-> MaxHealth]
    /\ bars = PlayerIds
    /\ projectiles = <<>>
    /\ explosions = <<>>
    /\ posted = <<>>
    /\ current_state_name = "GAMEPLAY"
    /\ done = [n \in StateNames |-> FALSE]
    /\ next_state = InitNextState
    /\ previous_state = [n \in StateNames |-> "NONE"]
    /\ context = InitContext
    /\ exit_ret = NoContext
    /\ enter_arg = NoContext
    /\ delta_time = 0
    /\ matches = 1
    /\ fire_gap = [p \in PlayerIds |-> NoGap]
    /\ died_frame = FALSE
    /\ powerup = NoPowerup

thrustRest == <<ships, players, health_bars, bars, projectiles, explosions,
                next_state, previous_state, context, exit_ret, enter_arg,
                matches, fire_gap, died_frame, powerup>>

\* Clock.tick in App.run
ThrustTick(dt) ==
    /\ pc = "tick"
    /\ delta_time' = dt
    /\ pc' = "poll"
    /\ posted' = <<>>
    /\ UNCHANGED <<thrusts, queue, batch, timers, current_state_name, done,
                   thrustRest>>

\* the game-over timer fires: the ship died at some earlier time, so the
\* delay may run out in any frame
ThrustTimerFires ==
    /\ pc = "poll"
    /\ timers # <<>>
    /\ queue' = Append(queue, GameOverEvent(0))
    /\ timers' = <<>>
    /\ posted' = <<>>
    /\ UNCHANGED <<thrusts, batch, pc, delta_time, current_state_name, done,
                   thrustRest>>

\* pygame.event.get() in App.__process_events
ThrustGetEvents ==
    /\ pc = "poll"
    /\ batch' = queue
    /\ queue' = <<>>
    /\ pc' = "events"
    /\ posted' = <<>>
    /\ UNCHANGED <<thrusts, timers, delta_time, current_state_name, done,
                   thrustRest>>

\* process_events of the current state for one event of the batch: Gameplay
\* spawns and removes Thrusts and goes done on GAMEOVER; GameOver has no
\* thrust group
ThrustEvent(speeds) ==
    /\ pc = "events"
    /\ batch # <<>>
    /\ thrusts' = IF current_state_name = "GAMEPLAY"
                  THEN ThrustsAfterEvent(thrusts, Head(batch), speeds)
                  ELSE thrusts
    /\ done' = IF current_state_name = "GAMEPLAY" /\ Head(batch).event = "GAMEOVER"
               THEN [done EXCEPT !["GAMEPLAY"] = TRUE]
               ELSE done
    /\ batch' = Tail(batch)
    /\ posted' = <<>>
    /\ UNCHANGED <<queue, pc, timers, delta_time, current_state_name,
                   thrustRest>>

\* StateManager.update in Gameplay: __thrusts.update in Gameplay.update, and
\* Gameplay.exit when the phase is done
ThrustsUpdate ==
    /\ pc = "events"
    /\ batch = <<>>
    /\ current_state_name = "GAMEPLAY"
    /\ posted' = Concat([i \in 1..Len(thrusts) |->
                            ThrustUpdatePosts(thrusts[i], delta_time)])
    /\ queue' = queue \o posted'
    /\ thrusts' = IF done["GAMEPLAY"] THEN <<>>
                  ELSE [i \in 1..Len(thrusts) |-> UpdateThrust(thrusts[i], delta_time)]
    /\ current_state_name' = IF done["GAMEPLAY"] THEN next_state["GAMEPLAY"]
                             ELSE current_state_name
    /\ done' = IF done["GAMEPLAY"] THEN DoneAfterEnter(done, next_state["GAMEPLAY"])
               ELSE done
    /\ pc' = "tick"
    /\ UNCHANGED <<batch, timers, delta_time, thrustRest>>

\* StateManager.update after the match: GameOver.update
ThrustsIdle ==
    /\ pc = "events"
    /\ batch = <<>>
    /\ current_state_name # "GAMEPLAY"
    /\ posted' = <<>>
    /\ pc' = "tick"
    /\ UNCHANGED <<thrusts, queue, batch, timers, delta_time,
                   current_state_name, done, thrustRest>>

NextThrust ==
    \/ \E dt \in ThrustDts : ThrustTick(dt)
    \/ ThrustTimerFires
    \/ ThrustGetEvents
    \/ \E speeds \in [1..ParticlesPerThrust -> ParticleSpeeds] : ThrustEvent(speeds)
    \/ ThrustsUpdate
    \/ ThrustsIdle

SpecThrust == InitThrust /\ [][NextThrust]_vars

\* the frame loop keeps running: App.run leaves its loop only when the
\* application is closed
SpecThrustLive == SpecThrust /\ WF_vars(NextThrust)

----------------------------------------------------------------------------
(* Claims about the ship and its health                                    *)

\* C1: after every PLAYER_HIT and HEALTH_POWERUP_PICKUP event delivered to a
\* ship, with any damage and heal amount, 0 <= health <= max_health.
HealthInRange ==
    \A p \in players : 0 <= ships[p].health /\ ships[p].health <= MaxHealth

\* C7: both cooldowns of every ship are >= 0 after any sequence of updates,
\* fire and hyperspace actions, and each update lowers a positive cooldown by
\* dt, floored at 0.
CooldownsDecay ==
    /\ [](\A p \in players :
            ships[p].cooldown >= 0 /\ ships[p].hyperspace_cooldown >= 0)
    /\ [][\A p \in PlayerIds, dt \in ShipDts :
            ShipUpdate(p, dt) =>
              /\ ships'[p].cooldown = Max(ships[p].cooldown - dt, 0)
              /\ ships'[p].hyperspace_cooldown =
                     Max(ships[p].hyperspace_cooldown - dt, 0)]_vars

\* C8: a ship publishes a fires event only on a press of its fire key while
\* its fire cooldown is <= 0, which sets the cooldown to projectile_cooldown;
\* a press while the cooldown is > 0 publishes nothing and changes nothing;
\* between two fires of a ship the update deltas sum to at least
\* projectile_cooldown.
FireDiscipline ==
    /\ [](\A p \in PlayerIds :
            fire_gap[p].at_fire \in {-2, -1}
            \/ fire_gap[p].at_fire >= ProjectileCooldown)
    /\ [][\A p \in PlayerIds :
            /\ HasFire(posted', p) =>
                 /\ ShipInput(p, Controls(p).fire, TRUE, NoVec)
                 /\ ships[p].cooldown <= 0
                 /\ ships'[p].cooldown = ProjectileCooldown
            /\ (ShipInput(p, Controls(p).fire, TRUE, NoVec) /\ ships[p].cooldown > 0) =>
                 (ships' = ships /\ posted' = <<>>)]_vars

\* C8 witness: a ship has just fired again, after an earlier fire
FiredTwice ==
    \E p \in players :
        HasFire(posted, p) /\ fire_gap[p].at_fire >= ProjectileCooldown

AngleInRange ==
    \A p \in players :
        FrameEnd => (0 <= ships[p].angle /\ ships[p].angle < 360)

----------------------------------------------------------------------------
(* Claims about the match, the phases and the state manager                *)

\* a GAMEOVER event is on its way to Gameplay, or has arrived
GameOverPending ==
    \/ done["GAMEPLAY"]
    \/ timers # <<>>
    \/ \E i \in 1..Len(queue) : queue[i].event = "GAMEOVER"
    \/ \E i \in 1..Len(batch) : batch[i].event = "GAMEOVER"

\* C2: once ships have been removed from a running match, a GAMEOVER is
\* pending: the match never stays in GAMEPLAY with ships removed and no
\* game-over timer armed, no GAMEOVER event queued and done unset.
CollisionEndsMatch ==
    (current_state_name = "GAMEPLAY" /\ players # PlayerIds) => GameOverPending

\* the step processes the event at the head of the batch in Gameplay
Processing(event) ==
    /\ pc = "events" /\ batch # <<>> /\ current_state_name = "GAMEPLAY"
    /\ Head(batch).event = event /\ batch' = Tail(batch)

\* the step is an update that leaves Gameplay
LeavesGameplay == current_state_name = "GAMEPLAY" /\ current_state_name' # "GAMEPLAY"

\* processing PLAYER_DIED removes the ship and arms the one GAMEOVER timer
\* with the full delay, leaving done alone
DeathArmsTimer ==
    Processing("PLAYER_DIED") =>
        /\ Head(batch).player \notin players'
        /\ timers' = <<[remaining |-> GameOverDelay, age |-> 0]>>
        /\ done' = done

\* done of Gameplay is set by processing GAMEOVER and by nothing else
DoneOnlyOnGameOver ==
    (~done["GAMEPLAY"] /\ done'["GAMEPLAY"]) => Processing("GAMEOVER")

\* every GAMEOVER event was armed a full delay before it was delivered
GameOverAfterDelay ==
    /\ \A i \in 1..Len(queue) :
          queue[i].event = "GAMEOVER" => queue[i].amount >= GameOverDelay
    /\ \A i \in 1..Len(batch) :
          batch[i].event = "GAMEOVER" => batch[i].amount >= GameOverDelay

FreshGameplay ==
    /\ players = PlayerIds /\ bars = PlayerIds
    /\ \A p \in PlayerIds :
          /\ ships[p].health = MaxHealth /\ health_bars[p] = MaxHealth
          /\ ships[p].cooldown = 0 /\ ships[p].hyperspace_cooldown = 0
          /\ ships[p].vel = <<0, 0>>
          /\ ships[p] = NewShip
    /\ projectiles = <<>> /\ explosions = <<>> /\ thrusts = 0

ContextHandedOver ==
    previous_state[current_state_name] # "NONE" => enter_arg = exit_ret

----------------------------------------------------------------------------
(* Claims about the functions of the ship                                  *)

\* C11: the angle normalisation N is idempotent, N(N(a)) = N(a), and
\* 360-periodic, N(a + 360) = N(a), for every integer angle a in [-360, 720].
NormaliseIdempotentPeriodic ==
    [][\A p \in PlayerIds :
          NormaliseStep(p) =>
             /\ NormaliseAngle(ships'[p].angle) = ships'[p].angle
             /\ NormaliseAngle(ships[p].angle + 360) = ships'[p].angle]_vars

----------------------------------------------------------------------------
(* Claims about the projectiles and the collision pass                     *)

\* the step is an update of Gameplay that stays in Gameplay
UpdateInGameplay ==
    /\ pc = "events" /\ pc' = "render"
    /\ current_state_name = "GAMEPLAY" /\ current_state_name' = "GAMEPLAY"

\* the PROJECTILE_OUT_OF_SCREEN events among `events` that refer to projectile i
ReportsOf(events, i) ==
    {j \in 1..Len(events) :
        events[j].event = "PROJECTILE_OUT_OF_SCREEN" /\ events[j].amount = i}

Inside(pos) ==
    /\ 0 <= pos[1] /\ pos[1] <= ScreenWidth
    /\ 0 <= pos[2] /\ pos[2] <= ScreenHeight

ProjectilesDrawnInside ==
    (pc = "render" /\ current_state_name = "GAMEPLAY") =>
        \A i \in 1..Len(projectiles) : Inside(projectiles[i].pos)

\* the projectile at index i of the group as the update of the step leaves it
Flown(i) ==
    LET target == <<projectiles[i].pos[1] + projectiles[i].vel[1] * delta_time,
                    projectiles[i].pos[2] + projectiles[i].vel[2] * delta_time>>
    IN  IF Inside(target) THEN [projectiles[i] EXCEPT !.pos = target]
        ELSE projectiles[i]

\* after the updates of the step, the mask of ship p overlaps a projectile
MaskedByProjectile(p) ==
    \E i \in 1..Len(projectiles) : MaskOverlap(ships'[p], Flown(i))

\* C14: in the ship x projectile pass, every PLAYER_HIT event names a ship
\* whose mask overlaps a projectile in that frame, carries a damage in 10..20
\* and comes with an explosion at that ship's position; a ship of which only
\* the rectangle overlaps a projectile is never the target; every projectile
\* the pass removes mask-overlaps some ship.
HitNamesMaskedShip ==
    [][UpdateInGameplay =>
          /\ \A j \in 1..Len(posted') :
                posted'[j].event = "PLAYER_HIT" =>
                   /\ posted'[j].player \in players
                   /\ MaskedByProjectile(posted'[j].player)
                   /\ posted'[j].amount \in 10..20
                   /\ \E k \in (Len(explosions) + 1)..Len(explosions') :
                         explosions'[k] = ships'[posted'[j].player].pos
          /\ \A i \in 1..Len(projectiles) :
                (\A p \in players : ~MaskOverlap(ships'[p], Flown(i))) =>
                   \E k \in 1..Len(projectiles') : projectiles'[k] = Flown(i)]_vars

\* the step is an update that ends with Gameplay current: the collision pass
\* has run
PassRuns ==
    pc = "events" /\ pc' = "render" /\ current_state_name' = "GAMEPLAY"

\* the ship group the pass of the step works on, and the number of explosions
\* before it: an update that enters Gameplay starts from the groups of enter()
GroupAtPass == IF current_state_name = "GAMEPLAY" THEN players ELSE PlayerIds

ExplosionsBeforePass ==
    IF current_state_name = "GAMEPLAY" THEN Len(explosions) ELSE 0

HitsPosted(events) ==
    Cardinality({j \in 1..Len(events) : events[j].event = "PLAYER_HIT"})

StaleRemoval(e) ==
    \/ e.event = "PROJECTILE_OUT_OF_SCREEN" /\ e.amount \notin 1..Len(projectiles)
    \/ e.event = "PLAYER_DIED" /\ e.player \notin players
    \/ e.event \in {"THRUST_EXHAUSTED", "EXPLOSION_OVER"}

\* Gameplay is handed the event at the head of the batch
AtHandler ==
    /\ pc = "events" /\ batch # <<>> /\ current_state_name = "GAMEPLAY"
    /\ Head(batch).kind = "USEREVENT"

GameOverOfOwnMatch ==
    (current_state_name = "GAMEPLAY" /\ done["GAMEPLAY"]) => players # PlayerIds

----------------------------------------------------------------------------
(* Claims about the power-up                                               *)

\* C18: a pickup clears the spawned flag, and the despawn timer of a spawn
\* that was picked up has no further effect: a removal event that comes from
\* the timer armed by an earlier spawn never clears the spawned flag of a
\* later spawn.
PickupDisarmsTimer ==
    [][(pc = "events" /\ batch # <<>>) =>
          /\ Head(batch).event = "HEALTH_POWERUP_PICKUP" => ~powerup'.spawned
          /\ (Head(batch).event = "HEALTH_POWERUP_REMOVAL"
                 /\ Head(batch).amount # powerup.spawns) =>
                powerup'.spawned = powerup.spawned]_vars

----------------------------------------------------------------------------
(* Claims about the screen wrap and the trajectory of a shot               *)

\* the step is the render of ship p
Renders(p) == pc = "render" /\ pc' = "tick" /\ p \in players

\* one coordinate after the wrap: past an edge it is on the opposite edge,
\* inside it is unchanged
Opposite(before, after, size) ==
    /\ before > size => after = 0
    /\ before < 0 => after = size
    /\ before \in 0..size => after = before

\* the position Player.update moves the rendered ship to in the next frame
NextPosition(s, p, dt) == UpdateShip(s, p, dt).ship.pos

\* C19: the screen wrap W maps every position to one inside
\* [0,width]x[0,height], maps a coordinate past an edge to the opposite edge,
\* and is idempotent; a ship that was wrapped in one frame and keeps its
\* velocity is not wrapped back to the edge it left in the next frame.
WrapIsStable ==
    [][\A p \in PlayerIds :
          (Renders(p) /\ ships[p].pos # <<0, 0>>) =>
              LET b == ships[p].pos
                  a == ships'[p].pos
              IN  /\ Inside(a)
                  /\ Opposite(b[1], a[1], ScreenWidth)
                  /\ Opposite(b[2], a[2], ScreenHeight)
                  /\ WrapPosition(a) = a
                  /\ ~ships'[p].is_accelerating =>
                        \A dt \in ShipDts :
                           /\ b[1] > ScreenWidth => NextPosition(ships'[p], p, dt)[1] >= 0
                           /\ b[1] < 0 => NextPosition(ships'[p], p, dt)[1] <= ScreenWidth
                           /\ b[2] > ScreenHeight => NextPosition(ships'[p], p, dt)[2] >= 0
                           /\ b[2] < 0 => NextPosition(ships'[p], p, dt)[2] <= ScreenHeight]_vars

\* C19 witness: render has wrapped a ship that flew past the right edge to
\* the left edge
WrappedToLeftEdge ==
    /\ pc = "tick"
    /\ ships["PLAYER1"].pos[1] = 0
    /\ ships["PLAYER1"].vel[1] > 0
    /\ ships["PLAYER1"].pos # <<0, 0>>

\* the unit vector a ship at the angle faces: -(sin a, cos a)
Facing(angle) ==
    CASE angle % 360 = 0 -> <<0, -1>>
      [] angle % 360 = 90 -> <<-1, 0>>
      [] angle % 360 = 180 -> <<0, 1>>
      [] angle % 360 = 270 -> <<1, 0>>

\* the fires event of ship p among the events
FireOf(events, p) ==
    events[CHOOSE i \in 1..Len(events) : events[i].event = FireEvent(p)]

\* C20: a fires event published by a ship at position p with velocity v
\* carries velocity v + d * projectile_speed and position
\* p + d * (half the ship sprite height + 10), where d is the unit vector the
\* ship faces: (0,-1) at angle 0, (-1,0) at 90, (0,1) at 180, (1,0) at 270.
FireTrajectory ==
    [][\A p \in PlayerIds :
          (pc = "tick" /\ pc' = "tick" /\ HasFire(posted', p)) =>
              /\ FireOf(posted', p).vel =
                    VAdd(ships[p].vel, VScale(Facing(ships[p].angle), ProjectileSpeed))
              /\ FireOf(posted', p).pos =
                    VAdd(ships[p].pos,
                         VScale(Facing(ships[p].angle), ShipImageHeight \div 2 + 10))]_vars

\* C20 witness: a moving ship that faces along the x axis has just fired
FiredSideways ==
    /\ pc = "tick"
    /\ HasFire(posted, "PLAYER1")
    /\ ships["PLAYER1"].angle % 360 = 270
    /\ ships["PLAYER1"].vel # <<0, 0>>
    /\ FireOf(posted, "PLAYER1").vel = VAdd(ships["PLAYER1"].vel, <<ProjectileSpeed, 0>>)

----------------------------------------------------------------------------
(* Claims about hyperspace, the projectile factory and the order of a      *)
(* frame                                                                   *)

\* the step is a handle_input call on ship p
Inputs(p) == pc = "tick" /\ pc' = "tick" /\ p \in players

\* the ship is somewhere else, moves differently or has another hyperspace
\* cooldown
Jumped(s, t) ==
    t.pos # s.pos \/ t.vel # s.vel \/ t.hyperspace_cooldown # s.hyperspace_cooldown

\* Player.handle_input of the hyperspace key
HyperspaceKey(s, p, is_pressed, rnd) ==
    HandleInput(s, p, Controls(p).hyperspace, is_pressed, rnd).ship

\* C21: a press of the hyperspace key while hyperspace_cooldown <= 0 sets the
\* ship's velocity to zero, moves it to a position with x in [20,width-20]
\* and y in [20,height-20] and sets hyperspace_cooldown to the configured
\* value, leaving angle, health and fire cooldown unchanged; a press while
\* hyperspace_cooldown > 0, and any release of the key, changes nothing.
HyperspaceJump ==
    [][\A p \in PlayerIds :
          Inputs(p) =>
              /\ Jumped(ships[p], ships'[p]) =>
                    /\ ships[p].hyperspace_cooldown <= 0
                    /\ ships'[p].vel = <<0, 0>>
                    /\ ships'[p].pos[1] \in 20..(ScreenWidth - 20)
                    /\ ships'[p].pos[2] \in 20..(ScreenHeight - 20)
                    /\ ships'[p].hyperspace_cooldown = HyperspaceCooldown
                    /\ ships'[p].angle = ships[p].angle
                    /\ ships'[p].health = ships[p].health
                    /\ ships'[p].cooldown = ships[p].cooldown
              /\ \A rnd \in HyperspaceDraws :
                    /\ ships[p].hyperspace_cooldown <= 0 =>
                          Jumped(ships[p], HyperspaceKey(ships[p], p, TRUE, rnd))
                    /\ ships[p].hyperspace_cooldown > 0 =>
                          HyperspaceKey(ships[p], p, TRUE, rnd) = ships[p]
                    /\ HyperspaceKey(ships[p], p, FALSE, rnd) = ships[p]]_vars

\* C21 witness: a ship that had turned has just jumped
JumpedTurned ==
    /\ pc = "tick"
    /\ ships["PLAYER1"].hyperspace_cooldown = HyperspaceCooldown
    /\ ships["PLAYER1"].pos \in HyperspaceDraws
    /\ ships["PLAYER1"].vel = <<0, 0>>
    /\ ships["PLAYER1"].angle # 180

\* C22: ProjectileFactory.create_projectile returns a projectile of the
\* owner's variant for PLAYER1 and PLAYER2 and signals a ValueError for any
\* other owner tag: it never falls back to a default variant and never
\* returns nothing.
FactoryRejectsUnknownOwner ==
    [][(pc = "call" /\ batch # <<>>) =>
          IF Head(batch).player \in PlayerIds
          THEN /\ pc' = "returned"
               /\ Len(projectiles') = Len(projectiles) + 1
               /\ projectiles'[Len(projectiles')].owner = Head(batch).player
               /\ projectiles'[Len(projectiles')].vel = Head(batch).vel
          ELSE /\ pc' = "ValueError"
               /\ projectiles' = projectiles]_vars

\* C22 witness: a call with an owner tag that is no player id has been left
\* by the ValueError, and no projectile was made
FactoryRaised == pc = "ValueError" /\ batch = <<>> /\ projectiles = <<>>

\* C23: in every Gameplay frame each ship's position integration and its
\* screen wrap happen before that frame's collision pass, so the pass never
\* tests a ship at a position outside the playfield: when Gameplay.update has
\* returned, with the pass as its last call, every ship of the group stands
\* inside [0,width]x[0,height].
PassTestsWrappedShips ==
    (pc = "render" /\ current_state_name = "GAMEPLAY") =>
        \A p \in players : Inside(ships[p].pos)

\* a projectile of the group overlaps the mask of a ship of the group
Overlapping ==
    \E p \in players, i \in 1..Len(projectiles) : MaskOverlap(ships[p], projectiles[i])

PublishedIn(events) ==
    LET own == SelectSeq(events,
                   LAMBDA e : e.kind = "USEREVENT" /\ e.event # "GAMEOVER")
    IN  [i \in 1..Len(own) |->
            IF own[i].event = "PROJECTILE_OUT_OF_SCREEN"
            THEN [own[i] EXCEPT !.amount = NoRef] ELSE own[i]]

\* the step is pygame.event.get() of a frame
EventPassStarts == pc = "poll" /\ pc' = "events"

\* the step hands the head of the batch to the active phase
Delivers == pc = "events" /\ pc' = "events" /\ batch # <<>>

Transition == current_state_name' # current_state_name

Trigger(n, e) ==
    IF n = "GAMEPLAY" THEN e.kind = "USEREVENT" /\ e.event = "GAMEOVER"
    ELSE e.kind = "KEYDOWN"

DiedPosted(events, p) ==
    {j \in 1..Len(events) : events[j].event = "PLAYER_DIED" /\ events[j].player = p}

\* C28: a ship whose health is 0 publishes a PLAYER_DIED event naming itself
\* in its next update and does not remove itself from the ship collection; a
\* ship leaves the collection only through Gameplay's handling of
\* PLAYER_DIED, the ship x ship collision pass, or phase exit, and a ship
\* with health > 0 never publishes PLAYER_DIED.
DeathPublishedByUpdate ==
    [][/\ UpdateInGameplay =>
            \A p \in players :
               Cardinality(DiedPosted(posted', p)) =
                   IF ships[p].health <= 0 THEN 1 ELSE 0
       /\ (~Transition /\ players' # players) =>
            \/ /\ Processing("PLAYER_DIED")
               /\ players' = players \ {Head(batch).player}
            \/ /\ UpdateInGameplay
               /\ players' = {}
               /\ Len(explosions') >= Len(explosions) + 2]_vars


\* the step delivers a fires event to Gameplay
FireDelivered ==
    Delivers /\ current_state_name = "GAMEPLAY" /\ IsFire(Head(batch))

\* the player a fires event belongs to
FiringPlayer(e) == IF e.event = "PLAYER1_FIRES" THEN "PLAYER1" ELSE "PLAYER2"

\* the projectile group grows only when Gameplay processes a fires event, by
\* one projectile, which comes last in the group, belongs to the player of
\* the event and has the velocity the event carries; a key handled by a ship
\* leaves the group alone
OneProjectilePerFire ==
    /\ Len(projectiles') > Len(projectiles) => FireDelivered
    /\ FireDelivered =>
          /\ Len(projectiles') = Len(projectiles) + 1
          /\ \A i \in 1..Len(projectiles) : projectiles'[i] = projectiles[i]
          /\ projectiles'[Len(projectiles')].owner = FiringPlayer(Head(batch))
          /\ projectiles'[Len(projectiles')].vel = Head(batch).vel
    /\ (Delivers /\ Head(batch).kind # "USEREVENT") => projectiles' = projectiles

\* the parts of C29 about the way projectiles enter the group
ProjectilesEnterByFireEvents == [][OneProjectilePerFire]_vars

\* C29: a ship's fire action adds nothing to the projectile collection by
\* itself; Gameplay adds exactly one projectile per PLAYERn_FIRES event it
\* processes, of the variant owned by player n and with the position and
\* velocity carried by the event, and no projectile enters the collection in
\* any other way.
ProjectileAsFired ==
    [][/\ OneProjectilePerFire
       /\ FireDelivered =>
             projectiles'[Len(projectiles')].pos = Head(batch).pos]_vars


\* the numbers of matches and of explosions a run of the match can show
MatchNumbers == 1..MaxMatches

ExplosionCounts == 1..4

\* C30: every explosion spawned in Gameplay is eventually removed from the
\* explosion collection while the phase is still active, once all its
\* particles have faded out or left the screen; the explosion collection
\* does not grow without bound over a match with repeated hits.  With the
\* frame loop running the particles fade within a bounded number of updates,
\* so a match that holds n explosions comes to hold fewer while it is still
\* the active phase.
ExplosionsRemoved ==
    \A m \in MatchNumbers, n \in ExplosionCounts :
       (current_state_name = "GAMEPLAY" /\ matches = m /\ Len(explosions) = n)
          ~> (current_state_name = "GAMEPLAY" /\ matches = m /\ Len(explosions) < n)


----------------------------------------------------------------------------
(* Claims about the Thrust effects                                         *)

\* identities of the Thrusts followed
ThrustIds == 1..2

\* the Thrust id is in the thrust group ths
InThrusts(ths, id) == \E i \in 1..Len(ths) : ths[i].id = id

\* a THRUST_EXHAUSTED event of the Thrust id is among the events
ExhaustedIn(events, id) ==
    \E i \in 1..Len(events) :
        events[i].event = "THRUST_EXHAUSTED" /\ events[i].amount = id

\* Gameplay is about to process the THRUST_EXHAUSTED event of the Thrust id
DeliversExhausted(id) ==
    /\ pc = "events"
    /\ batch # <<>>
    /\ current_state_name = "GAMEPLAY"
    /\ Head(batch).event = "THRUST_EXHAUSTED"
    /\ Head(batch).amount = id

\* the step is an update of the groups in Gameplay
ThrustsUpdated == pc = "events" /\ batch = <<>> /\ current_state_name = "GAMEPLAY"

\* the step is the update at whose end Gameplay.exit empties the groups
MatchEnds == ThrustsUpdated /\ done["GAMEPLAY"]

\* the particle batch of the Thrust id of the group is empty after an update
\* by delta_time
BatchEmptied(id) ==
    \E i \in 1..Len(thrusts) :
        thrusts[i].id = id /\ ParticlesAfterUpdate(thrusts[i], delta_time) = <<>>

\* every particle left in a batch is visible and on the screen
ParticlesAlive ==
    \A i \in 1..Len(thrusts) : \A j \in 1..Len(thrusts[i].particles) :
        ~ParticleKilled(thrusts[i].particles[j])

\* the event of the Thrust id is published by the update that empties its
\* batch, and only by it, and not while one is waiting
PublishedWhenEmptied(id) ==
    /\ ExhaustedIn(posted', id) =>
          ThrustsUpdated /\ BatchEmptied(id)
              /\ ~ExhaustedIn(queue, id) /\ ~ExhaustedIn(batch, id)
    /\ ThrustsUpdated /\ BatchEmptied(id) =>
          ExhaustedIn(posted', id) /\ ExhaustedIn(queue', id)

----------------------------------------------------------------------------
(* Claims about rendering                                                  *)

\* the fields of a ship that the updates and the collision passes read
Simulated(s) ==
    <<s.pos, s.angle, s.vel, s.health, s.cooldown, s.hyperspace_cooldown>>

\* C32: rendering is a read-only pass: Player.render leaves the position,
\* the angle, the velocity, the health and the cooldowns of the ship as they
\* were.
RenderReadOnly ==
    [][pc = "render" /\ pc' = "tick"
          => \A p \in PlayerIds : Simulated(ships'[p]) = Simulated(ships[p])]_vars


----------------------------------------------------------------------------
(* Claims about the spawning of the power-up                               *)

\* the step is a Powerup.update
PowerupUpdated == pc = "update" /\ pc' = "tick"

\* the step processes a pickup or a removal event
PowerupCleared ==
    /\ pc = "events"
    /\ batch # <<>>
    /\ Head(batch).event \in {"HEALTH_POWERUP_PICKUP", "HEALTH_POWERUP_REMOVAL"}

\* the position is one the two randint calls of a spawn can draw
SpawnArea(pos) ==
    /\ pos[1] >= 50 /\ pos[1] <= ScreenWidth - 50
    /\ pos[2] >= 50 /\ pos[2] <= ScreenHeight - 50

\* C33: the power-up spawns only from the not-spawned state: an update while
\* it is spawned changes neither its position nor its flag and arms no timer;
\* a spawn happens in an update, sets the flag, places the power-up in the
\* spawn area and arms one despawn timer of its duration; a pickup or a
\* removal event clears the flag.
SpawnsOnlyWhenNotSpawned ==
    [][/\ PowerupUpdated /\ powerup.spawned
             => powerup' = powerup /\ timers' = timers
       /\ powerup'.spawns # powerup.spawns \/ (powerup'.spawned /\ ~powerup.spawned)
             => /\ PowerupUpdated
                /\ ~powerup.spawned
                /\ powerup'.spawned
                /\ powerup'.spawns = powerup.spawns + 1
                /\ SpawnArea(powerup'.position)
                /\ Len(timers') = 1
                /\ timers'[1].remaining = powerup.duration
                /\ timers'[1].spawn = powerup'.spawns
       /\ powerup'.position # powerup.position
             => PowerupUpdated /\ ~powerup.spawned
       /\ timers' # timers /\ PowerupUpdated => ~powerup.spawned
       /\ PowerupCleared => ~powerup'.spawned]_vars

\* the power-up has spawned again after a pickup or a removal cleared it
SpawnedAgain == powerup.spawned /\ powerup.spawns >= 2


----------------------------------------------------------------------------
(* Claims about the events that change health                              *)

\* the health of every ship but that of player p is as it was
OthersUnchanged(p) ==
    \A q \in PlayerIds \ {p} : ships'[q].health = ships[q].health

\* C34: a PLAYER_HIT event changes the health of the targeted ship only, and
\* a HEALTH_POWERUP_PICKUP event attributed to a player changes the health of
\* that player's ship only.
EventsChangeNamedShipOnly ==
    [][/\ \A target \in PlayerIds, damage \in HitDamages :
             DeliverHit(target, damage) => OthersUnchanged(target)
       /\ \A player \in PlayerIds, value \in HealAmounts :
             DeliverPickup(player, value) => OthersUnchanged(player)]_vars

\* C35: while a ship and its HealthBar are both in Gameplay, the hit points
\* of the bar equal the health of the ship, after every sequence of
\* PLAYER_HIT and HEALTH_POWERUP_PICKUP events.
BarShowsHealth ==
    \A p \in players \cap bars : health_bars[p] = ships[p].health


----------------------------------------------------------------------------
(* Claims about the placed ship                                            *)

\* the ship of player p has been rendered: a ship that has not is as
\* constructed, since input and updates leave it so until its first render
Placed(p) == ships[p] # NewShip

\* C36: once a ship has been placed by its first render, every later update
\* integrates its position and decays its cooldowns, and no later render
\* puts its position and angle back to the start values: a render of a
\* placed ship only normalises the angle and wraps the position.  This holds
\* for every position, the zero vector included.
PlacedShipStaysPlaced ==
    [][\A p \in PlayerIds :
          /\ \A dt \in ShipDts :
                Placed(p) /\ ShipUpdate(p, dt) =>
                   /\ ships'[p].pos = VAdd(ships[p].pos, VScale(ships'[p].vel, dt))
                   /\ ships'[p].cooldown = Max(ships[p].cooldown - dt, 0)
                   /\ ships'[p].hyperspace_cooldown =
                          Max(ships[p].hyperspace_cooldown - dt, 0)
          /\ Placed(p) /\ ShipRender(p) =>
                /\ ships'[p].pos = WrapPosition(ships[p].pos)
                /\ ships'[p].angle = NormaliseAngle(ships[p].angle)]_vars


----------------------------------------------------------------------------
(* Claims about the ship whose health is 0                                 *)

\* the step is Gameplay.handle_input for a key event of the batch
KeyHandled ==
    /\ pc = "events"
    /\ batch # <<>>
    /\ current_state_name = "GAMEPLAY"
    /\ Head(batch).kind # "USEREVENT"

\* C37: a ship whose health has reached 0 and that is still in the ship
\* group publishes no fires event and performs no hyperspace jump, whatever
\* key event Gameplay hands to it.
DeadShipIsInert ==
    [][\A p \in players :
          KeyHandled /\ ships[p].health <= 0 =>
             /\ ~HasFire(posted', p)
             /\ ships'[p].pos = ships[p].pos
             /\ ships'[p].hyperspace_cooldown = ships[p].hyperspace_cooldown]_vars


----------------------------------------------------------------------------
(* Claims about the ship group                                             *)

\* the step enters Gameplay
EntersGameplay ==
    current_state_name # "GAMEPLAY" /\ current_state_name' = "GAMEPLAY"

----------------------------------------------------------------------------
(* Claims about the names of the states                                    *)

\* C39: the current state name is a registered name and never NONE, the
\* next_state of every registered state is a registered name, and every
\* name the state manager and the states use is a member of GameState, so
\* that no lookup of a state or of a successor fails.
StateLookupsResolve ==
    /\ current_state_name \in StateNames \ {"NONE"}
    /\ \A n \in StateNames :
          /\ next_state[n] \in StateNames
          /\ n \in GameStateMembers
          /\ next_state[n] \in GameStateMembers

\* the part of C39 that is about the registered names alone
RegisteredNamesClosed ==
    /\ current_state_name \in StateNames \ {"NONE"}
    /\ \A n \in StateNames : next_state[n] \in StateNames

====
